---- MODULE Spec2Model ----
(***************************************************************************)
(* Model of the asset catalogue: the in-memory AssetStorage                *)
(* (src/src/lib/storage.ts) and the HTTP handlers that drive it            *)
(* (pages/api/assets/upload.ts, pages/api/assets/index.ts and the DELETE   *)
(* handler).                                                               *)
(*                                                                         *)
(* Representation.                                                         *)
(*  - A JavaScript string is a sequence of pieces, so that trim,           *)
(*    toLowerCase and endsWith are computed, not assumed. A                *)
(*    piece is one whitespace character or a non-empty run of characters   *)
(*    that neither starts nor ends with whitespace. Company identifiers    *)
(*    and file names are spelled one character a piece, because            *)
(*    toLowerCase, endsWith and substring tests look inside them; an       *)
(*    address is only trimmed, so its text between the outer blanks is one *)
(*    piece.                                                               *)
(*  - A coordinate is an integer number of 0.00001 degree units, so the    *)
(*    tolerance 0.0001 is 10 units and 90 degrees are 9000000 units. The   *)
(*    code compares doubles: Within computes Math.abs(x - y) < 0.0001 as   *)
(*    IEEE 754 arithmetic does. On this grid it is the comparison of the   *)
(*    integers except for a difference of exactly 10 units, where the      *)
(*    rounding of the three decimal literals to doubles decides.           *)
(*  - The storage object is the sequence of its own entries in insertion   *)
(*    order, the order Object.entries/keys/values enumerate keys that are  *)
(*    not array indices. No identifier used below is an array index.       *)
(*  - loop is the state of the Node.js event loop: the upload requests     *)
(*    suspended at their await, and the position of the synchronous code    *)
(*    that is running, if any. Only the specification of interleaved        *)
(*    requests moves it.                                                    *)
(***************************************************************************)
EXTENDS Integers, Sequences, FiniteSets, TLC

VARIABLES storage, last, loop

vars == <<storage, last, loop>>

---------------------------------------------------------------------------
(* Bounds of the model *)

\* Most records the store may hold before further appends are cut off.
MaxAssets == 5

\* Longest batch handed to addAssets directly.
MaxBatch == 2

\* Most upload requests suspended in the multipart middleware at one time.
MaxInFlight == 2

---------------------------------------------------------------------------
(* Strings *)

\* The value of a parameter or field that is absent. No piece of a string is
\* empty, so it differs from every string.
Undefined == <<"">>

Whitespace == {" "}

UpperCase == <<"A", "B", "C", "D", "E", "F", "G", "H", "I", "J", "K", "L", "M",
               "N", "O", "P", "Q", "R", "S", "T", "U", "V", "W", "X", "Y", "Z">>

LowerCase == <<"a", "b", "c", "d", "e", "f", "g", "h", "i", "j", "k", "l", "m",
               "n", "o", "p", "q", "r", "s", "t", "u", "v", "w", "x", "y", "z">>

toLowerChar(ch) ==
    IF \E i \in 1..Len(UpperCase) : UpperCase[i] = ch
    THEN LowerCase[CHOOSE i \in 1..Len(UpperCase) : UpperCase[i] = ch]
    ELSE ch

toLowerCase(s) == [i \in 1..Len(s) |-> toLowerChar(s[i])]

RECURSIVE trimStart(_)
trimStart(s) ==
    IF s # <<>> /\ Head(s) \in Whitespace THEN trimStart(Tail(s)) ELSE s

RECURSIVE trimEnd(_)
trimEnd(s) ==
    IF s # <<>> /\ s[Len(s)] \in Whitespace
    THEN trimEnd(SubSeq(s, 1, Len(s) - 1))
    ELSE s

trim(s) == trimEnd(trimStart(s))

\* JavaScript truthiness of an optional string: undefined and '' are falsy.
Truthy(s) == s # Undefined /\ s # <<>>

---------------------------------------------------------------------------
(* Company identifiers and records used as inputs *)

company1 == <<"c", "o", "m", "p", "a", "n", "y", "1">>
company2 == <<"c", "o", "m", "p", "a", "n", "y", "2">>
acme == <<"a", "c", "m", "e">>
comp == <<"c", "o", "m", "p">>
COMPANY1 == <<"C", "O", "M", "P", "A", "N", "Y", "1">>
constructor == <<"c", "o", "n", "s", "t", "r", "u", "c", "t", "o", "r">>

\* Names every object literal inherits from Object.prototype: reading them on
\* the storage object yields a (truthy) function, not an array.
ObjectPrototypeKeys == {constructor}

\* The seed addresses (storage.ts lines 18, 23, 30).
Address123MainSt == <<"123 Main St, New York, NY">>
Address456OakAve == <<"456 Oak Ave, Los Angeles, CA">>
Address789PineRd == <<"789 Pine Rd, Chicago, IL">>

(* Records. Coordinates are in units of 0.00001 degree. *)

Asset(address, latitude, longitude) ==
    [address |-> address, latitude |-> latitude, longitude |-> longitude]

\* The three sample records of the constructor.
SeedNewYork == Asset(Address123MainSt, 4071280, -7400600)
SeedLosAngeles == Asset(Address456OakAve, 3405220, -11824370)
SeedChicago == Asset(Address789PineRd, 4187810, -8762980)

\* A record 0.00005 degree away from the New York seed on both axes.
NearNewYork == Asset(<<"N">>, 4071285, -7400605)

\* Two records 0.00006 degree apart on both axes, far from every seed.
PointA == Asset(<<"A">>, 0, 0)
PointB == Asset(<<"B">>, 6, 6)

\* The records handed to addAssets directly.
Assets == {NearNewYork, PointA, PointB}

RECURSIVE SeqsUpTo(_, _)
SeqsUpTo(S, n) ==
    IF n = 0 THEN {<<>>}
    ELSE LET shorter == SeqsUpTo(S, n - 1)
         IN  shorter \cup {Append(b, x) : b \in shorter, x \in S}

Batches == SeqsUpTo(Assets, MaxBatch)

\* Company identifiers handed to the storage methods directly.
CompanyIds == {company1, acme, constructor}

\* Filters handed to getAssets.
Filters == CompanyIds \cup {comp, COMPANY1, <<>>, Undefined}

\* Coordinates handed to deleteAsset: a point within tolerance of the New York
\* seed and of NearNewYork, a point within tolerance of PointA and of PointB,
\* a point within tolerance of PointA alone, and a point far from every record.
Coordinates ==
    { <<4071283, -7400597>>, <<3, 3>>, <<-5, -5>>, <<100, 100>> }

---------------------------------------------------------------------------
(* AssetStorage *)

\* 0.0001 degree, the literal of the four comparisons of storage.ts.
Tolerance == 10

Abs(x) == IF x < 0 THEN -x ELSE x

(* The coordinates are JavaScript numbers, IEEE 754 doubles. A coordinate of
   m units is the decimal m / 10^5 = m / (2^5 * 3125); the double nearest to
   it, in the binade 2^e <= m / 10^5 < 2^(e+1), is a whole number of
   2^(e-52), so its distance to the decimal is a whole number of
   2^(e-52) / 3125 read off the remainder of m * 2^(47-e) by 3125. (3125 is
   odd: no decimal lies half way between two doubles.) *)

RECURSIVE Pow2(_)
Pow2(k) == IF k = 0 THEN 1 ELSE 2 * Pow2(k - 1)

\* 2^k modulo n.
RECURSIVE Pow2Mod(_, _)
Pow2Mod(k, n) == IF k = 0 THEN 1 % n ELSE (2 * Pow2Mod(k - 1, n)) % n

\* The binade of a magnitude of m >= 10^5 units (one degree or more).
RECURSIVE Exponent(_)
Exponent(m) == IF m < 200000 THEN 0 ELSE 1 + Exponent(m \div 2)

\* double(m / 10^5) - m / 10^5 in units of 2^-52 / 3125, for m >= 10^5.
RoundingError(m) ==
    LET e == Exponent(m)
        r == ((m % 3125) * Pow2Mod(47 - e, 3125)) % 3125
    IN  (IF 2 * r < 3125 THEN -r ELSE 3125 - r) * Pow2(e)

\* double(0.0001) - 0.0001 in units of 2^-66 / 625: 0.0001 = 1 / (2^4 * 625)
\* lies in the binade of 2^-14.
ToleranceRoundingError ==
    LET r == Pow2Mod(62, 625)
    IN  IF 2 * r < 625 THEN -r ELSE 625 - r

\* Math.abs(x - y) < 0.0001 on the doubles of x and y units. A difference of
\* other than 10 units is further from 0.0001 than any rounding, so the
\* integers decide. At exactly 10 units, for coordinates of one sign and of
\* one degree or more, the subtraction of the doubles is exact and yields
\* 0.0001 + (RoundingError(a) - RoundingError(b)) * 2^-52 / 3125, a the larger
\* magnitude, to be compared with 0.0001 + ToleranceRoundingError * 2^-66 /
\* 625; the first offset, when not zero, is at least 2^14 / 5 times a unit of
\* the second, which is below 625 units.
Within(x, y) ==
    IF Abs(x - y) # Tolerance
    THEN Abs(x - y) < Tolerance
    ELSE LET a == IF Abs(x) > Abs(y) THEN Abs(x) ELSE Abs(y)
             b == IF Abs(x) > Abs(y) THEN Abs(y) ELSE Abs(x)
             offset == RoundingError(a) - RoundingError(b)
         IN  offset < 0 \/ (offset = 0 /\ ToleranceRoundingError > 0)

\* An entry of the storage object: an own key and its array.
Entry(companyId, assets) == [companyId |-> companyId, assets |-> assets]

\* The constructor's sample data.
SeedStorage ==
    << Entry(company1, <<SeedNewYork, SeedLosAngeles>>),
       Entry(company2, <<SeedChicago>>) >>

HasOwn(store, companyId) ==
    \E i \in 1..Len(store) : store[i].companyId = companyId

IndexOf(store, companyId) ==
    CHOOSE i \in 1..Len(store) : store[i].companyId = companyId

\* this.storage[companyId] when companyId is an own key.
Bucket(store, companyId) == store[IndexOf(store, companyId)].assets

\* this.storage[companyId] read as a condition: an own array (even an empty
\* one) and an inherited function are both truthy.
LookupTruthy(store, companyId) ==
    HasOwn(store, companyId) \/ companyId \in ObjectPrototypeKeys

\* this.storage[companyId] is an inherited member of Object.prototype: it has
\* no some, filter, map or push, so calling them throws a TypeError.
LookupInherited(store, companyId) ==
    ~HasOwn(store, companyId) /\ companyId \in ObjectPrototypeKeys

\* this.storage[companyId] = assets: replaces in place, or appends a new key.
SetBucket(store, companyId, assets) ==
    IF HasOwn(store, companyId)
    THEN [store EXCEPT ![IndexOf(store, companyId)].assets = assets]
    ELSE Append(store, Entry(companyId, assets))

\* DeleteKey removing every key that equals companyId up to letter case.
DeleteKeyFolded(store, companyId) ==
    SelectSeq(store, LAMBDA e : toLowerCase(e.companyId) # toLowerCase(companyId))

\* delete this.storage[companyId]
DeleteKey(store, companyId) ==
    SelectSeq(store, LAMBDA e : e.companyId # companyId)

WithCompany(asset, companyId) ==
    [address |-> asset.address, latitude |-> asset.latitude,
     longitude |-> asset.longitude, companyId |-> companyId]

TagAll(assets, companyId) ==
    [i \in 1..Len(assets) |-> WithCompany(assets[i], companyId)]

\* AllAssetsFrom listing each bucket newest record first.
RECURSIVE AllAssetsNewestFirst(_, _)
AllAssetsNewestFirst(store, i) ==
    IF i > Len(store) THEN <<>>
    ELSE LET tagged == TagAll(store[i].assets, store[i].companyId)
         IN  [k \in 1..Len(tagged) |-> tagged[Len(tagged) + 1 - k]]
             \o AllAssetsNewestFirst(store, i + 1)

RECURSIVE AllAssetsFrom(_, _)
AllAssetsFrom(store, i) ==
    IF i > Len(store) THEN <<>>
    ELSE TagAll(store[i].assets, store[i].companyId) \o AllAssetsFrom(store, i + 1)

\* getAssets(companyId?): [threw, assets]
getAssets(store, companyId) ==
    IF Truthy(companyId)
    THEN IF HasOwn(store, companyId)
         THEN [threw |-> FALSE, assets |-> TagAll(Bucket(store, companyId), companyId)]
         ELSE IF LookupInherited(store, companyId)
              THEN [threw |-> TRUE, assets |-> <<>>]
              ELSE [threw |-> FALSE, assets |-> <<>>]
    ELSE [threw |-> FALSE, assets |-> AllAssetsFrom(store, 1)]

\* isDuplicate comparing the coordinates for equality, without the window.
isDuplicateExact(existingAssets, asset) ==
    \E i \in 1..Len(existingAssets) :
        /\ existingAssets[i].latitude = asset.latitude
        /\ existingAssets[i].longitude = asset.longitude

\* isDuplicate with the second comparison reading the wrong axis.
isDuplicateMixedAxes(existingAssets, asset) ==
    \E i \in 1..Len(existingAssets) :
        /\ Within(existingAssets[i].latitude, asset.latitude)
        /\ Within(existingAssets[i].latitude, asset.longitude)

\* The test of addAssets' existingAssets.some(...).
isDuplicate(existingAssets, asset) ==
    \E i \in 1..Len(existingAssets) :
        /\ Within(existingAssets[i].latitude, asset.latitude)
        /\ Within(existingAssets[i].longitude, asset.longitude)

\* addLoop testing each record also against the records kept earlier in the
\* same batch.
RECURSIVE addLoopWithinBatch(_, _, _, _)
addLoopWithinBatch(existingAssets, assets, newAssets, duplicatesSkipped) ==
    IF assets = <<>>
    THEN [newAssets |-> newAssets, duplicatesSkipped |-> duplicatesSkipped]
    ELSE IF ~isDuplicate(existingAssets \o newAssets, Head(assets))
         THEN addLoopWithinBatch(existingAssets, Tail(assets),
                                 Append(newAssets, Head(assets)), duplicatesSkipped)
         ELSE addLoopWithinBatch(existingAssets, Tail(assets),
                                 newAssets, duplicatesSkipped + 1)

\* addLoop with the test inverted: it keeps the duplicates and skips the rest.
RECURSIVE addLoopInverted(_, _, _, _)
addLoopInverted(existingAssets, assets, newAssets, duplicatesSkipped) ==
    IF assets = <<>>
    THEN [newAssets |-> newAssets, duplicatesSkipped |-> duplicatesSkipped]
    ELSE IF isDuplicate(existingAssets, Head(assets))
         THEN addLoopInverted(existingAssets, Tail(assets),
                              Append(newAssets, Head(assets)), duplicatesSkipped)
         ELSE addLoopInverted(existingAssets, Tail(assets),
                              newAssets, duplicatesSkipped + 1)

\* The loop of addAssets: [newAssets, duplicatesSkipped] for one batch.
RECURSIVE addLoop(_, _, _, _)
addLoop(existingAssets, assets, newAssets, duplicatesSkipped) ==
    IF assets = <<>>
    THEN [newAssets |-> newAssets, duplicatesSkipped |-> duplicatesSkipped]
    ELSE IF ~isDuplicate(existingAssets, Head(assets))
         THEN addLoop(existingAssets, Tail(assets),
                      Append(newAssets, Head(assets)), duplicatesSkipped)
         ELSE addLoop(existingAssets, Tail(assets),
                      newAssets, duplicatesSkipped + 1)

\* The store once addAssets has made sure companyId has a bucket.
EnsureBucket(store, companyId) ==
    IF ~LookupTruthy(store, companyId)
    THEN SetBucket(store, companyId, <<>>)
    ELSE store

\* addAssets putting the kept records in front of the bucket's records.
addAssetsPrepending(store, companyId, assets) ==
    LET ensured == EnsureBucket(store, companyId)
    IN  IF LookupInherited(ensured, companyId)
        THEN [threw |-> TRUE, storage |-> ensured,
              added |-> <<>>, duplicatesSkipped |-> 0]
        ELSE LET existingAssets == Bucket(ensured, companyId)
                 r == addLoop(existingAssets, assets, <<>>, 0)
             IN  [threw |-> FALSE,
                  storage |-> SetBucket(ensured, companyId,
                                        r.newAssets \o existingAssets),
                  added |-> r.newAssets,
                  duplicatesSkipped |-> r.duplicatesSkipped]

\* addAssets storing the kept records in place of the bucket's records.
addAssetsReplacing(store, companyId, assets) ==
    LET ensured == EnsureBucket(store, companyId)
    IN  IF LookupInherited(ensured, companyId)
        THEN [threw |-> TRUE, storage |-> ensured,
              added |-> <<>>, duplicatesSkipped |-> 0]
        ELSE LET r == addLoop(Bucket(ensured, companyId), assets, <<>>, 0)
             IN  [threw |-> FALSE,
                  storage |-> SetBucket(ensured, companyId, r.newAssets),
                  added |-> r.newAssets,
                  duplicatesSkipped |-> r.duplicatesSkipped]

\* addAssets(companyId, assets): [threw, storage, added, duplicatesSkipped]
addAssets(store, companyId, assets) ==
    LET ensured == EnsureBucket(store, companyId)
    IN  IF LookupInherited(ensured, companyId)
        THEN [threw |-> TRUE, storage |-> ensured,
              added |-> <<>>, duplicatesSkipped |-> 0]
        ELSE LET existingAssets == Bucket(ensured, companyId)
                 r == addLoop(existingAssets, assets, <<>>, 0)
             IN  [threw |-> FALSE,
                  storage |-> SetBucket(ensured, companyId,
                                        existingAssets \o r.newAssets),
                  added |-> r.newAssets,
                  duplicatesSkipped |-> r.duplicatesSkipped]

\* The predicate of both filters of deleteAsset.
matchesCoordinates(asset, latitude, longitude) ==
    /\ Within(asset.latitude, latitude)
    /\ Within(asset.longitude, longitude)

\* RemoveMatching dropping the first matching record only.
RemoveFirstMatching(store, companyId, latitude, longitude) ==
    LET bucket == Bucket(store, companyId)
        first == CHOOSE i \in 1..Len(bucket) :
                     /\ matchesCoordinates(bucket[i], latitude, longitude)
                     /\ \A j \in 1..(i - 1) :
                            ~matchesCoordinates(bucket[j], latitude, longitude)
        kept == SubSeq(bucket, 1, first - 1) \o SubSeq(bucket, first + 1, Len(bucket))
    IN  IF Len(kept) = 0
        THEN DeleteKey(store, companyId)
        ELSE SetBucket(store, companyId, kept)

\* RemoveMatching without the clean-up of an emptied bucket.
RemoveMatchingKeepKey(store, companyId, latitude, longitude) ==
    SetBucket(store, companyId,
              SelectSeq(Bucket(store, companyId),
                        LAMBDA a : ~matchesCoordinates(a, latitude, longitude)))

\* The store after deleteAsset has dropped the matching records of companyId.
RemoveMatching(store, companyId, latitude, longitude) ==
    LET kept == SelectSeq(Bucket(store, companyId),
                          LAMBDA a : ~matchesCoordinates(a, latitude, longitude))
    IN  IF Len(kept) = 0
        THEN DeleteKey(store, companyId)
        ELSE SetBucket(store, companyId, kept)

NoAsset == <<>>

\* deleteAsset(companyId, latitude, longitude):
\* [threw, storage, success, deletedAsset], deletedAsset a sequence of 0 or 1.
deleteAsset(store, companyId, latitude, longitude) ==
    IF ~LookupTruthy(store, companyId)
    THEN [threw |-> FALSE, storage |-> store, success |-> FALSE,
          deletedAsset |-> NoAsset]
    ELSE IF LookupInherited(store, companyId)
    THEN [threw |-> TRUE, storage |-> store, success |-> FALSE,
          deletedAsset |-> NoAsset]
    ELSE LET assetsToDelete ==
                 SelectSeq(Bucket(store, companyId),
                           LAMBDA a : matchesCoordinates(a, latitude, longitude))
         IN  IF Len(assetsToDelete) = 0
             THEN [threw |-> FALSE, storage |-> store, success |-> FALSE,
                   deletedAsset |-> NoAsset]
             ELSE [threw |-> FALSE,
                   storage |-> RemoveMatching(store, companyId, latitude, longitude),
                   success |-> TRUE,
                   deletedAsset |-> <<assetsToDelete[1]>>]

\* getAllCompanies()
getAllCompanies(store) == [i \in 1..Len(store) |-> store[i].companyId]

RECURSIVE SumLengths(_, _)
SumLengths(store, i) ==
    IF i > Len(store) THEN 0
    ELSE Len(store[i].assets) + SumLengths(store, i + 1)

\* getTotalAssets()
getTotalAssets(store) == SumLengths(store, 1)

---------------------------------------------------------------------------
(* Loosely typed values: what JSON.parse, Papa.parse and a request body yield *)

Str(s) == [t |-> "string", s |-> s]
Num(n) == [t |-> "number", n |-> n]
\* The numbers that are not finite: 1e999 in a JSON text or a CSV cell reads
\* as Infinity, and parseFloat of a text that is no number yields NaN.
PositiveInfinity == [t |-> "Infinity"]
NaNCell == [t |-> "NaN"]
\* typeof v === 'number'
IsNumber(v) == v.t \in {"number", "Infinity", "NaN"}
\* OutOfRange without the upper limit: v < -limit alone.
OutOfRangeBelow(v, limit) ==
    \/ v.t = "Infinity"
    \/ v.t = "number" /\ v.n < -limit
\* v < -limit || v > limit, for v a number: false of NaN, true of Infinity.
OutOfRange(v, limit) ==
    \/ v.t = "Infinity"
    \/ v.t = "number" /\ (v.n < -limit \/ v.n > limit)
Undef == [t |-> "undefined"]
Null == [t |-> "null"]
Bool == [t |-> "boolean"]
Obj(address, latitude, longitude) ==
    [t |-> "object", address |-> address, latitude |-> latitude,
     longitude |-> longitude]
Arr(items) == [t |-> "array", items |-> items]
SyntaxError == [t |-> "SyntaxError"]

\* The candidate object a well-formed record is parsed into.
ObjOf(asset) == Obj(Str(asset.address), Num(asset.latitude), Num(asset.longitude))

\* The stored form of a candidate that passed validation.
AssetOf(obj) == Asset(obj.address.s, obj.latitude.n, obj.longitude.n)

AssetsOf(objs) == [i \in 1..Len(objs) |-> AssetOf(objs[i])]

endsWith(s, suffix) ==
    /\ Len(suffix) <= Len(s)
    /\ SubSeq(s, Len(s) - Len(suffix) + 1, Len(s)) = suffix

dotCsv == <<".", "c", "s", "v">>
dotJson == <<".", "j", "s", "o", "n">>

---------------------------------------------------------------------------
(* POST /assets/upload *)

allowedTypes == {"text/csv", "application/json", "text/json"}
allowedExtensions == {dotCsv, dotJson}

\* multer's fileFilter: TRUE when the file is accepted, FALSE when the
\* callback is given an Error.
fileFilter(file) ==
    LET hasValidMimeType == file.mimetype \in allowedTypes
        hasValidExtension ==
            \E ext \in allowedExtensions :
                endsWith(toLowerCase(file.originalname), ext)
    IN  hasValidMimeType \/ hasValidExtension

\* A parser's outcome: the candidates, or a thrown Error.
Parsed(assets) == [threw |-> FALSE, assets |-> assets]
ParseThrew == [threw |-> TRUE, assets |-> <<>>]

\* A numeric cell after Papa's transform is parseFloat of its text, NaN for
\* text that does not start with a number: the transform throws on it.
CsvRowThrows(row) == row.latitude.t = "NaN" \/ row.longitude.t = "NaN"

\* parseCSV: csv is what Papa.parse makes of the text, [data, errors], data
\* being the rows keyed by header with the latitude and longitude cells
\* already through parseFloat.
parseCSV(csv) ==
    IF \E i \in 1..Len(csv.data) : CsvRowThrows(csv.data[i])
    THEN ParseThrew
    ELSE IF csv.errors > 0
    THEN ParseThrew
    ELSE Parsed(csv.data)

\* The three checks parseJSON makes of one element; TRUE when one throws.
JsonElementThrows(asset) ==
    \/ asset.t # "object"
    \/ asset.address.t # "string" \/ asset.address.s = <<>>
    \/ ~IsNumber(asset.latitude) \/ asset.latitude.t = "NaN"
    \/ ~IsNumber(asset.longitude) \/ asset.longitude.t = "NaN"

\* parseJSON taking a top-level array only.
parseJSONArrayOnly(json) ==
    IF json.t # "array"
    THEN ParseThrew
    ELSE IF \E i \in 1..Len(json.items) : JsonElementThrows(json.items[i])
    THEN ParseThrew
    ELSE Parsed(json.items)

\* parseJSON: json is what JSON.parse makes of the text.
parseJSON(json) ==
    IF json.t = "SyntaxError"
    THEN ParseThrew
    ELSE LET assets == IF json.t = "array" THEN json.items ELSE <<json>>
         IN  IF \E i \in 1..Len(assets) : JsonElementThrows(assets[i])
             THEN ParseThrew
             ELSE Parsed(assets)

\* The handler's dispatch on the file's suffix: what the parser it names
\* makes of the file.
ParsedBySuffix(file) ==
    IF endsWith(toLowerCase(file.originalname), dotCsv)
    THEN parseCSV(file.content.csv)
    ELSE parseJSON(file.content.json)

LatitudeLimit == 9000000
LongitudeLimit == 18000000

\* assetErrors stopping at the first rule a record violates.
assetErrorsShortCircuit(asset, index) ==
    IF asset.address.t # "string" \/ trim(asset.address.s) = <<>>
    THEN << <<index, "address cannot be empty">> >>
    ELSE IF ~IsNumber(asset.latitude) \/ OutOfRange(asset.latitude, LatitudeLimit)
    THEN << <<index, "latitude must be a number between -90 and 90">> >>
    ELSE IF ~IsNumber(asset.longitude) \/ OutOfRange(asset.longitude, LongitudeLimit)
    THEN << <<index, "longitude must be a number between -180 and 180">> >>
    ELSE <<>>

\* The violations validateAssets reports for the record at index.
assetErrors(asset, index) ==
    (IF asset.address.t # "string" \/ trim(asset.address.s) = <<>>
     THEN << <<index, "address cannot be empty">> >> ELSE <<>>)
    \o
    (IF ~IsNumber(asset.latitude) \/ OutOfRange(asset.latitude, LatitudeLimit)
     THEN << <<index, "latitude must be a number between -90 and 90">> >>
     ELSE <<>>)
    \o
    (IF ~IsNumber(asset.longitude) \/ OutOfRange(asset.longitude, LongitudeLimit)
     THEN << <<index, "longitude must be a number between -180 and 180">> >>
     ELSE <<>>)

RECURSIVE validateFrom(_, _)
validateFrom(assets, index) ==
    IF index > Len(assets) THEN <<>>
    ELSE assetErrors(assets[index], index) \o validateFrom(assets, index + 1)

\* validateAssets(assets): the error messages, in record then rule order.
validateAssets(assets) == validateFrom(assets, 1)

NoFile == <<>>

Response(status, message, error) ==
    [status |-> status, success |-> FALSE, message |-> message, error |-> error,
     assets |-> <<>>, duplicatesSkipped |-> 0]

\* UploadMessage naming the skipped count even when nothing was skipped.
UploadMessageAlways(added, companyId, duplicatesSkipped) ==
    [text |-> "Successfully uploaded", added |-> Len(added),
     companyId |-> companyId, skipped |-> <<duplicatesSkipped>>]

\* The summary of a stored batch: the count added, the company identifier as
\* sent, and the count of duplicates when it is not zero.
UploadMessage(added, companyId, duplicatesSkipped) ==
    [text |-> "Successfully uploaded", added |-> Len(added),
     companyId |-> companyId,
     skipped |-> IF duplicatesSkipped > 0 THEN <<duplicatesSkipped>> ELSE <<>>]

\* uploadParsed storing the records that passed validation when others of the
\* batch failed it.
uploadParsedPartialCommit(store, req, file) ==
    LET name == toLowerCase(file.originalname)
        parsed == IF endsWith(name, dotCsv) THEN parseCSV(file.content.csv)
                  ELSE parseJSON(file.content.json)
        valid == SelectSeq(parsed.assets, LAMBDA a : assetErrors(a, 1) = <<>>)
        r == addAssets(store, trim(req.companyId), AssetsOf(valid))
    IN  IF ~endsWith(name, dotCsv) /\ ~endsWith(name, dotJson)
        THEN [response |-> Response(400, "Invalid file type",
                                    "Only CSV and JSON files are supported"),
              storage |-> store]
        ELSE IF parsed.threw
        THEN [response |-> Response(400, "File parsing failed", "parse error"),
              storage |-> store]
        ELSE IF r.threw
        THEN [response |-> Response(500, "Internal server error", "TypeError"),
              storage |-> r.storage]
        ELSE IF Len(validateAssets(parsed.assets)) > 0
        THEN [response |-> Response(400, "Data validation failed",
                                    validateAssets(parsed.assets)),
              storage |-> r.storage]
        ELSE [response |->
                  [status |-> 200, success |-> TRUE,
                   message |-> UploadMessage(r.added, req.companyId,
                                             r.duplicatesSkipped),
                   error |-> "",
                   assets |-> r.added,
                   duplicatesSkipped |-> r.duplicatesSkipped],
              storage |-> r.storage]

\* uploadParsed choosing the parser by the declared MIME type.
uploadParsedByMimeType(store, req, file) ==
    LET parsed == IF file.mimetype = "text/csv" THEN parseCSV(file.content.csv)
                  ELSE parseJSON(file.content.json)
    IN  IF file.mimetype \notin allowedTypes
        THEN [response |-> Response(400, "Invalid file type",
                                    "Only CSV and JSON files are supported"),
              storage |-> store]
        ELSE IF parsed.threw
        THEN [response |-> Response(400, "File parsing failed", "parse error"),
              storage |-> store]
        ELSE IF Len(validateAssets(parsed.assets)) > 0
        THEN [response |-> Response(400, "Data validation failed",
                                    validateAssets(parsed.assets)),
              storage |-> store]
        ELSE LET r == addAssets(store, trim(req.companyId), AssetsOf(parsed.assets))
             IN  IF r.threw
                 THEN [response |-> Response(500, "Internal server error",
                                             "TypeError"),
                       storage |-> r.storage]
                 ELSE [response |->
                           [status |-> 200, success |-> TRUE,
                            message |-> UploadMessage(r.added, req.companyId,
                                                      r.duplicatesSkipped),
                            error |-> "",
                            assets |-> r.added,
                            duplicatesSkipped |-> r.duplicatesSkipped],
                       storage |-> r.storage]

\* The handler from its file dispatch on: [response, storage].
uploadParsed(store, req, file) ==
    LET name == toLowerCase(file.originalname)
        parsed == IF endsWith(name, dotCsv) THEN parseCSV(file.content.csv)
                  ELSE parseJSON(file.content.json)
    IN  IF ~endsWith(name, dotCsv) /\ ~endsWith(name, dotJson)
        THEN [response |-> Response(400, "Invalid file type",
                                    "Only CSV and JSON files are supported"),
              storage |-> store]
        ELSE IF parsed.threw
        THEN [response |-> Response(400, "File parsing failed", "parse error"),
              storage |-> store]
        ELSE LET validationErrors == validateAssets(parsed.assets)
             IN  IF Len(validationErrors) > 0
                 THEN [response |-> Response(400, "Data validation failed",
                                             validationErrors),
                       storage |-> store]
                 ELSE LET r == addAssets(store, trim(req.companyId),
                                         AssetsOf(parsed.assets))
                      IN  IF r.threw
                          THEN [response |-> Response(500, "Internal server error",
                                                      "TypeError"),
                                storage |-> r.storage]
                          ELSE [response |->
                                    [status |-> 200, success |-> TRUE,
                                     message |-> UploadMessage(r.added, req.companyId,
                                                               r.duplicatesSkipped),
                                     error |-> "",
                                     assets |-> r.added,
                                     duplicatesSkipped |-> r.duplicatesSkipped],
                                storage |-> r.storage]

\* handler of upload.ts: [response, storage]. req.file is NoFile or <<file>>;
\* req.companyId is the form field, Undefined when the form has none.
uploadHandler(store, req) ==
    IF req.method # "POST"
    THEN [response |-> Response(405, "Method not allowed",
                                "Only POST method is supported"),
          storage |-> store]
    ELSE IF req.file # NoFile /\ ~fileFilter(req.file[1])
    THEN [response |-> Response(500, "Internal server error",
                                "Only CSV and JSON files are allowed"),
          storage |-> store]
    ELSE IF req.companyId = Undefined \/ ~Truthy(trim(req.companyId))
    THEN [response |-> Response(400, "Validation failed", "companyId is required"),
          storage |-> store]
    ELSE IF req.file = NoFile
    THEN [response |-> Response(400, "Validation failed", "assetFile is required"),
          storage |-> store]
    ELSE uploadParsed(store, req, req.file[1])

---------------------------------------------------------------------------
(* DELETE /assets/delete *)

DeleteResponse(status, message, deletedAsset) ==
    [status |-> status, success |-> status = 200, message |-> message,
     deletedAsset |-> deletedAsset]

\* The handler once the body's fields passed validation: [response, storage].
deleteValidated(store, companyId, latitude, longitude) ==
    LET deleteResult == deleteAsset(store, companyId, latitude, longitude)
    IN  IF deleteResult.threw
        THEN [response |-> DeleteResponse(500, "Internal server error", <<>>),
              storage |-> deleteResult.storage]
        ELSE IF deleteResult.success /\ deleteResult.deletedAsset # NoAsset
        THEN [response |->
                  DeleteResponse(200, "deleted successfully",
                      << [address |-> deleteResult.deletedAsset[1].address,
                          companyId |-> companyId] >>),
              storage |-> deleteResult.storage]
        ELSE [response |-> DeleteResponse(404, "Asset not found", <<>>),
              storage |-> deleteResult.storage]

\* handler of DELETE /assets/delete: [response, storage]. The body's fields are
\* loosely typed.
deleteHandler(store, req) ==
    LET companyId == req.body.companyId
        latitude == req.body.latitude
        longitude == req.body.longitude
    IN  IF req.method # "DELETE"
        THEN [response |-> DeleteResponse(405, "Method not allowed", <<>>),
              storage |-> store]
        ELSE IF companyId.t = "number"
        THEN \* companyId?.trim is not a function
             [response |-> DeleteResponse(500, "Internal server error", <<>>),
              storage |-> store]
        ELSE IF companyId.t # "string" \/ ~Truthy(trim(companyId.s))
        THEN [response |-> DeleteResponse(400, "Validation failed", <<>>),
              storage |-> store]
        ELSE IF latitude.t # "number"
        THEN [response |-> DeleteResponse(400, "Validation failed", <<>>),
              storage |-> store]
        ELSE IF longitude.t # "number"
        THEN [response |-> DeleteResponse(400, "Validation failed", <<>>),
              storage |-> store]
        ELSE IF latitude.n < -LatitudeLimit \/ latitude.n > LatitudeLimit
        THEN [response |-> DeleteResponse(400, "Validation failed", <<>>),
              storage |-> store]
        ELSE IF longitude.n < -LongitudeLimit \/ longitude.n > LongitudeLimit
        THEN [response |-> DeleteResponse(400, "Validation failed", <<>>),
              storage |-> store]
        ELSE deleteValidated(store, companyId.s, latitude.n, longitude.n)

---------------------------------------------------------------------------
(* GET /assets *)

\* What assetStorage.getAssets hands to a handler: it threw, it returned
\* null or undefined (a stubbed store, __tests__/api/assets.test.ts), or it
\* returned a list.  `called' records that the handler called it.
StoreResult(threw, nullish, assets) ==
    [threw |-> threw, nullish |-> nullish, assets |-> assets]

\* handler of pages/api/assets/index.ts on the store's result: assets.length
\* of null or undefined is a TypeError, which the catch turns into 500.
respond(method, r) ==
    IF method # "GET"
    THEN [status |-> 405, success |-> FALSE, assets |-> <<>>, total |-> 0,
          called |-> FALSE]
    ELSE IF r.threw \/ r.nullish
         THEN [status |-> 500, success |-> FALSE, assets |-> <<>>, total |-> 0,
               called |-> TRUE]
         ELSE [status |-> 200, success |-> TRUE, assets |-> r.assets,
               total |-> Len(r.assets), called |-> TRUE]

\* handler of the second copy of the route (unnamed/part_005): safeAssets is
\* assets || [].
respondSafe(method, r) ==
    IF method # "GET"
    THEN [status |-> 405, success |-> FALSE, assets |-> <<>>, total |-> 0,
          called |-> FALSE]
    ELSE IF r.threw
         THEN [status |-> 500, success |-> FALSE, assets |-> <<>>, total |-> 0,
               called |-> TRUE]
         ELSE LET safeAssets == IF r.nullish THEN <<>> ELSE r.assets
              IN  [status |-> 200, success |-> TRUE, assets |-> safeAssets,
                   total |-> Len(safeAssets), called |-> TRUE]

\* handler of pages/api/assets/index.ts: the response, over the store.
getHandler(store, req) ==
    LET r == getAssets(store, req.companyId)
        answer == respond(req.method, StoreResult(r.threw, FALSE, r.assets))
    IN  [status |-> answer.status, success |-> answer.success,
         assets |-> answer.assets, total |-> answer.total]

---------------------------------------------------------------------------
(* Requests used as inputs *)

company1Spaced == <<" ">> \o company1 \o <<" ">>
blank == <<" ">>

nameCsv == <<"a", ".", "c", "s", "v">>
nameCsvUpper == <<"A", ".", "C", "S", "V">>
nameJson == <<"a", ".", "j", "s", "o", "n">>
nameTxt == <<"a", ".", "t", "x", "t">>

\* What Papa.parse makes of a text: the rows and the number of errors.
Csv(data, errors) == [data |-> data, errors |-> errors]

\* A file whose text is CSV: JSON.parse throws a SyntaxError on it.
CsvFile(originalname, mimetype, data, errors) ==
    [originalname |-> originalname, mimetype |-> mimetype,
     content |-> [csv |-> Csv(data, errors), json |-> SyntaxError]]

\* A file whose text is JSON: Papa.parse finds no rows in it and reports an
\* error.
JsonFile(originalname, mimetype, json) ==
    [originalname |-> originalname, mimetype |-> mimetype,
     content |-> [csv |-> Csv(<<>>, 1), json |-> json]]

TooFarNorth == Obj(Str(<<"X">>), Num(20000000), Num(0))

Files ==
    { CsvFile(nameCsv, "text/csv", <<ObjOf(PointA), ObjOf(PointB)>>, 0),
      CsvFile(nameCsv, "text/csv",
              <<Obj(Str(<<"A">>), NaNCell, Num(0))>>, 0),
      CsvFile(nameCsvUpper, "application/octet-stream", <<ObjOf(PointB)>>, 0),
      CsvFile(nameJson, "text/csv", <<ObjOf(PointA)>>, 0),
      CsvFile(nameCsv, "text/csv", <<Obj(Str(<<"A">>), Undef, Num(0))>>, 0),
      CsvFile(nameCsv, "text/csv", <<ObjOf(PointA)>>, 1),
      CsvFile(nameTxt, "text/csv", <<ObjOf(PointA)>>, 0),
      CsvFile(nameTxt, "text/plain", <<ObjOf(PointA)>>, 0),
      JsonFile(nameJson, "application/json", ObjOf(NearNewYork)),
      JsonFile(nameJson, "application/json", Arr(<<ObjOf(PointB), TooFarNorth>>)),
      JsonFile(nameJson, "application/json", Arr(<<>>)),
      JsonFile(nameJson, "application/json", Num(5)),
      JsonFile(nameJson, "application/json", Null),
      JsonFile(nameJson, "application/json", Str(<<"s">>)),
      JsonFile(nameJson, "application/json", Bool),
      JsonFile(nameJson, "application/json", Arr(<<ObjOf(NearNewYork), ObjOf(PointB)>>)),
      JsonFile(nameJson, "application/json", SyntaxError),
      JsonFile(nameJson, "application/json",
               Arr(<<Obj(Str(blank), Num(0), Num(-18000001)),
                     Obj(Str(<<"X">>), PositiveInfinity, Num(0))>>)),
      JsonFile(nameCsv, "application/json", Arr(<<ObjOf(PointA)>>)) }

\* Files that parse and validate.
StorableFiles ==
    { f \in Files :
          /\ fileFilter(f)
          /\ \/ endsWith(toLowerCase(f.originalname), dotCsv)
             \/ endsWith(toLowerCase(f.originalname), dotJson) }

UploadRequests ==
    { [method |-> "POST", companyId |-> acme, file |-> f] :
          f \in {<<x>> : x \in Files} \cup {NoFile} }
    \cup
    { [method |-> "POST", companyId |-> c, file |-> <<f>>] :
          c \in {company1Spaced, constructor}, f \in StorableFiles }
    \cup
    { [method |-> "POST", companyId |-> c, file |-> f] :
          c \in {blank, <<>>, Undefined},
          f \in { <<CsvFile(nameCsv, "text/csv", <<ObjOf(PointA), ObjOf(PointB)>>, 0)>>,
                  NoFile } }
    \cup { [method |-> "GET", companyId |-> acme, file |-> NoFile] }

DeleteBody(companyId, latitude, longitude) ==
    [companyId |-> companyId, latitude |-> latitude, longitude |-> longitude]

DeleteRequests ==
    { [method |-> "DELETE", body |-> DeleteBody(Str(c), Num(p[1]), Num(p[2]))] :
          c \in {company1, company1Spaced, acme, constructor}, p \in Coordinates }
    \cup
    { [method |-> "DELETE",
       body |-> DeleteBody(Str(c), Num(PointB.latitude), Num(PointB.longitude))] :
          c \in {company1Spaced, acme} }
    \cup
    { [method |-> "DELETE", body |-> b] :
          b \in { DeleteBody(Str(blank), Num(3), Num(3)),
                  DeleteBody(Undef, Num(3), Num(3)),
                  DeleteBody(Num(1), Num(3), Num(3)),
                  DeleteBody(Str(acme), Str(<<"3">>), Num(3)),
                  DeleteBody(Str(acme), Num(3), Undef),
                  DeleteBody(Str(acme), Num(9000001), Num(3)),
                  DeleteBody(Str(acme), Num(3), Num(-18000001)) } }
    \cup
    { [method |-> "POST", body |-> DeleteBody(Str(acme), Num(3), Num(3))] }

GetRequests ==
    { [method |-> "GET", companyId |-> f] : f \in Filters }
    \cup { [method |-> "POST", companyId |-> Undefined] }

\* The number of records a request's file holds, whichever parser reads it.
FileRecords(req) ==
    IF req.file = NoFile THEN 0
    ELSE LET content == req.file[1].content
         IN  Len(content.csv.data)
             + (IF content.json.t = "array" THEN Len(content.json.items) ELSE 1)

---------------------------------------------------------------------------
(* The state machine *)

\* No callback is running.
Idle == [pc |-> "idle"]

Init ==
    /\ storage = SeedStorage
    /\ last = [op |-> "init"]
    /\ loop = [awaiting |-> {}, running |-> Idle]

\* assetStorage.addAssets(companyId, assets)
AddAssets ==
    /\ UNCHANGED loop
    /\ \E companyId \in CompanyIds, assets \in Batches :
           /\ getTotalAssets(storage) + Len(assets) <= MaxAssets
           /\ LET r == addAssets(storage, companyId, assets)
              IN  /\ storage' = r.storage
                  /\ last' = [op |-> "addAssets", companyId |-> companyId,
                              assets |-> assets, pre |-> storage, threw |-> r.threw,
                              added |-> r.added,
                              duplicatesSkipped |-> r.duplicatesSkipped]

\* assetStorage.deleteAsset(companyId, latitude, longitude)
DeleteAsset ==
    /\ UNCHANGED loop
    /\ \E companyId \in CompanyIds, p \in Coordinates :
           LET r == deleteAsset(storage, companyId, p[1], p[2])
           IN  /\ storage' = r.storage
               /\ last' = [op |-> "deleteAsset", companyId |-> companyId,
                           latitude |-> p[1], longitude |-> p[2], pre |-> storage,
                           threw |-> r.threw, success |-> r.success,
                           deletedAsset |-> r.deletedAsset]

\* assetStorage.getAssets(companyId?)
GetAssets ==
    \E companyId \in Filters :
        LET r == getAssets(storage, companyId)
        IN  /\ last' = [op |-> "getAssets", companyId |-> companyId,
                        pre |-> storage, threw |-> r.threw, assets |-> r.assets]
            /\ UNCHANGED <<storage, loop>>

\* assetStorage.getAllCompanies()
GetAllCompanies ==
    /\ last' = [op |-> "getAllCompanies", pre |-> storage,
                companies |-> getAllCompanies(storage)]
    /\ UNCHANGED <<storage, loop>>

\* assetStorage.getTotalAssets()
GetTotalAssets ==
    /\ last' = [op |-> "getTotalAssets", pre |-> storage,
                total |-> getTotalAssets(storage)]
    /\ UNCHANGED <<storage, loop>>

\* One POST /assets/upload request, from arrival to response.
Upload ==
    /\ UNCHANGED loop
    /\ \E req \in UploadRequests :
           /\ getTotalAssets(storage) + FileRecords(req) <= MaxAssets
           /\ LET r == uploadHandler(storage, req)
              IN  /\ storage' = r.storage
                  /\ last' = [op |-> "upload", request |-> req, pre |-> storage,
                              response |-> r.response]

\* One DELETE /assets/delete request. repeatOf is history: the status the
\* same request was answered with when it was also the previous step, else 0.
Delete ==
    /\ UNCHANGED loop
    /\ \E req \in DeleteRequests :
           LET r == deleteHandler(storage, req)
           IN  /\ storage' = r.storage
               /\ last' = [op |-> "delete", request |-> req, pre |-> storage,
                           response |-> r.response,
                           repeatOf |-> IF last.op = "delete" /\ last.request = req
                                        THEN last.response.status
                                        ELSE 0]

\* One GET /assets request.
Get ==
    \E req \in GetRequests :
        /\ last' = [op |-> "get", request |-> req, pre |-> storage,
                    response |-> getHandler(storage, req)]
        /\ UNCHANGED <<storage, loop>>

\* The storage methods, called in any order.
Next ==
    \/ AddAssets
    \/ DeleteAsset
    \/ GetAssets
    \/ GetAllCompanies
    \/ GetTotalAssets

Spec == Init /\ [][Next]_vars

\* The HTTP requests, served one after the other.
HttpNext ==
    \/ Upload
    \/ Delete
    \/ Get

HttpSpec == Init /\ [][HttpNext]_vars

(* The tolerance window probed around the New York seed *)

\* Offsets from the seed, in units: 0.00009, 0.0001 and 0.00011 degree on one
\* axis or on both.
ProbeOffsets ==
    { <<9, 9>>, <<-9, -9>>, <<10, 0>>, <<-10, 0>>, <<0, 10>>, <<0, -10>>,
      <<11, 0>>, <<0, -11>>, <<10, 9>> }

Probe(offset) ==
    Asset(<<"P">>, SeedNewYork.latitude + offset[1],
          SeedNewYork.longitude + offset[2])

\* assetStorage.addAssets('company1', [probe])
ProbeAdd ==
    /\ UNCHANGED loop
    /\ \E offset \in ProbeOffsets :
           /\ getTotalAssets(storage) + 1 <= MaxAssets
           /\ LET r == addAssets(storage, company1, <<Probe(offset)>>)
              IN  /\ storage' = r.storage
                  /\ last' = [op |-> "addAssets", companyId |-> company1,
                              assets |-> <<Probe(offset)>>, pre |-> storage,
                              threw |-> r.threw, added |-> r.added,
                              duplicatesSkipped |-> r.duplicatesSkipped]

\* assetStorage.deleteAsset('company1', latitude, longitude) at a probe
ProbeDelete ==
    /\ UNCHANGED loop
    /\ \E offset \in ProbeOffsets :
           LET p == Probe(offset)
               r == deleteAsset(storage, company1, p.latitude, p.longitude)
           IN  /\ storage' = r.storage
               /\ last' = [op |-> "deleteAsset", companyId |-> company1,
                           latitude |-> p.latitude, longitude |-> p.longitude,
                           pre |-> storage, threw |-> r.threw,
                           success |-> r.success, deletedAsset |-> r.deletedAsset]

WindowNext ==
    \/ ProbeAdd
    \/ ProbeDelete

WindowSpec == Init /\ [][WindowNext]_vars

(* Requests interleaved on the event loop.

   A handler runs from where it is called, or resumed, to its next await or
   its return without any other callback running in between. The upload
   handler has one await, on the multipart middleware (upload.ts line 140);
   the GET and DELETE handlers and the methods of AssetStorage have none. The
   steps below are the writes of addAssets and deleteAsset in the order the
   code makes them; EventLoopFree is the condition under which the loop hands
   control to a handler. *)

LoopUploads ==
    { [method |-> "POST", companyId |-> acme,
       file |-> <<CsvFile(nameCsv, "text/csv", <<ObjOf(PointA), ObjOf(PointB)>>, 0)>>],
      [method |-> "POST", companyId |-> acme,
       file |-> <<JsonFile(nameJson, "application/json",
                           Arr(<<ObjOf(PointB), TooFarNorth>>))>>],
      [method |-> "POST", companyId |-> company1Spaced,
       file |-> <<JsonFile(nameJson, "application/json", ObjOf(NearNewYork))>>] }

LoopDeletes ==
    { [method |-> "DELETE", body |-> DeleteBody(Str(c), Num(p[1]), Num(p[2]))] :
          c \in {company1, acme}, p \in {<<4071283, -7400597>>, <<3, 3>>} }

LoopGets ==
    { [method |-> "GET", companyId |-> f] : f \in {Undefined, acme} }

\* The event loop is free to start or resume a handler: no synchronous code is
\* running. This variant lets a handler start at any time.
Preemptive == TRUE

EventLoopFree == loop.running.pc = "idle"

\* The batch the upload handler hands to addAssets, as a sequence of one, or
\* the empty sequence when it answers before reaching the store.
HandedToStore(req) ==
    IF \/ req.method # "POST"
       \/ req.file = NoFile
       \/ ~fileFilter(req.file[1])
       \/ req.companyId = Undefined
       \/ ~Truthy(trim(req.companyId))
       \/ /\ ~endsWith(toLowerCase(req.file[1].originalname), dotCsv)
          /\ ~endsWith(toLowerCase(req.file[1].originalname), dotJson)
    THEN <<>>
    ELSE LET parsed == ParsedBySuffix(req.file[1])
         IN  IF parsed.threw \/ Len(validateAssets(parsed.assets)) > 0
             THEN <<>>
             ELSE <<AssetsOf(parsed.assets)>>

\* An upload request arrives: the handler runs to its await.
UploadArrives ==
    \E req \in LoopUploads :
        /\ EventLoopFree
        /\ req \notin loop.awaiting
        /\ Cardinality(loop.awaiting) < MaxInFlight
        /\ loop' = [loop EXCEPT !.awaiting = @ \cup {req}]
        /\ last' = [op |-> "uploadArrives", request |-> req]
        /\ UNCHANGED storage

\* The middleware is done: the handler resumes after its await and either
\* answers without reaching the store or enters addAssets.
UploadResumes ==
    \E req \in loop.awaiting :
        /\ EventLoopFree
        /\ IF HandedToStore(req) = <<>>
           THEN /\ loop' = [loop EXCEPT !.awaiting = @ \ {req}]
                /\ last' = [op |-> "uploadAnswers", request |-> req,
                            status |-> uploadHandler(storage, req).response.status]
           ELSE /\ getTotalAssets(storage) + Len(HandedToStore(req)[1]) <= MaxAssets
                /\ loop' = [awaiting |-> loop.awaiting \ {req},
                            running |-> [pc |-> "ensure", op |-> "addAssets",
                                         companyId |-> trim(req.companyId),
                                         assets |-> HandedToStore(req)[1],
                                         pre |-> storage]]
                /\ last' = [op |-> "uploadResumes", request |-> req]
        /\ UNCHANGED storage

\* addAssets, first write: the bucket is created when the company has none.
AddEnsuresBucket ==
    /\ loop.running.pc = "ensure"
    /\ storage' = EnsureBucket(storage, loop.running.companyId)
    /\ loop' = [loop EXCEPT !.running.pc = "push"]
    /\ last' = [op |-> "addEnsuresBucket"]

\* addAssets, second write: the loop over the batch and the one push of the
\* records it kept; the handler then answers and returns.
AddPushes ==
    /\ loop.running.pc = "push"
    /\ LET companyId == loop.running.companyId
       IN  IF LookupInherited(storage, companyId)
           THEN UNCHANGED storage
           ELSE storage' =
                    SetBucket(storage, companyId,
                              Bucket(storage, companyId)
                                  \o addLoop(Bucket(storage, companyId),
                                             loop.running.assets, <<>>, 0).newAssets)
    /\ loop' = [loop EXCEPT !.running = Idle]
    /\ last' = [op |-> "addPushes", finished |-> loop.running]

\* A DELETE request arrives: the handler validates, enters deleteAsset and
\* answers 404 when nothing matches.
DeleteArrives ==
    \E req \in LoopDeletes :
        LET companyId == req.body.companyId.s
            latitude == req.body.latitude.n
            longitude == req.body.longitude.n
            r == deleteAsset(storage, companyId, latitude, longitude)
        IN  /\ EventLoopFree
            /\ IF r.success
               THEN loop' = [loop EXCEPT !.running =
                                [pc |-> "filter", op |-> "deleteAsset",
                                 companyId |-> companyId, latitude |-> latitude,
                                 longitude |-> longitude, pre |-> storage]]
               ELSE UNCHANGED loop
            /\ last' = [op |-> "deleteArrives", request |-> req]
            /\ UNCHANGED storage

\* deleteAsset, first write: the bucket is replaced by its records that do not
\* match.
DeleteFilters ==
    /\ loop.running.pc = "filter"
    /\ LET companyId == loop.running.companyId
           kept == SelectSeq(Bucket(storage, companyId),
                             LAMBDA a : ~matchesCoordinates(a, loop.running.latitude,
                                                           loop.running.longitude))
       IN  /\ storage' = SetBucket(storage, companyId, kept)
           /\ loop' = IF Len(kept) = 0
                      THEN [loop EXCEPT !.running.pc = "cleanup"]
                      ELSE [loop EXCEPT !.running = Idle]
    /\ last' = [op |-> "deleteFilters",
                finished |-> IF loop'.running.pc = "idle" THEN loop.running ELSE Idle]

\* deleteAsset, second write: the key of an emptied bucket is deleted; the
\* handler then answers and returns.
DeleteCleansUp ==
    /\ loop.running.pc = "cleanup"
    /\ storage' = DeleteKey(storage, loop.running.companyId)
    /\ loop' = [loop EXCEPT !.running = Idle]
    /\ last' = [op |-> "deleteCleansUp", finished |-> loop.running]

\* A GET request is served. during and awaiting are history: the code that
\* was running and the uploads that were suspended when it read the store
\* (as finished, above, is the mutation a step brought to its end).
GetServed ==
    \E req \in LoopGets :
        /\ EventLoopFree
        /\ last' = [op |-> "get", request |-> req, pre |-> storage,
                    response |-> getHandler(storage, req),
                    during |-> loop.running, awaiting |-> loop.awaiting]
        /\ UNCHANGED <<storage, loop>>

LoopNext ==
    \/ UploadArrives
    \/ UploadResumes
    \/ AddEnsuresBucket
    \/ AddPushes
    \/ DeleteArrives
    \/ DeleteFilters
    \/ DeleteCleansUp
    \/ GetServed

LoopSpec == Init /\ [][LoopNext]_vars

---------------------------------------------------------------------------
(* Vocabulary of the properties *)

\* The duplicate relation: both axes differ by less than the tolerance.
Near(latitude1, longitude1, latitude2, longitude2) ==
    /\ Abs(latitude1 - latitude2) < Tolerance
    /\ Abs(longitude1 - longitude2) < Tolerance

\* The records stored for companyId in store; none when it has no bucket.
RecordsOf(store, companyId) ==
    IF HasOwn(store, companyId) THEN Bucket(store, companyId) ELSE <<>>

\* Some record of the sequence is within tolerance of the coordinates.
SomeNear(records, latitude, longitude) ==
    \E i \in 1..Len(records) :
        Near(records[i].latitude, records[i].longitude, latitude, longitude)

\* The positions of the batch whose record is within tolerance of a record of
\* stored.
NearStored(stored, assets) ==
    { i \in 1..Len(assets) :
          SomeNear(stored, assets[i].latitude, assets[i].longitude) }

\* The last step was a call of addAssets that returned.
AddReturned == last.op = "addAssets" /\ ~last.threw

\* The last step was a call of deleteAsset that returned.
DeleteReturned == last.op = "deleteAsset" /\ ~last.threw

---------------------------------------------------------------------------
(* C1 *)

\* C1: in every reachable state, every company identifier that is a key of the
\* store maps to a non-empty sequence of records.
C1_EveryKeyNonEmpty ==
    \A i \in 1..Len(storage) : Len(storage[i].assets) > 0

---------------------------------------------------------------------------
(* C2 *)

\* s contains sub as a contiguous run of characters.
includes(s, sub) ==
    \E i \in 1..(Len(s) - Len(sub) + 1) : SubSeq(s, i, i + Len(sub) - 1) = sub

\* What a case-insensitive substring filter selects: the records of every
\* bucket whose identifier contains the filter, each tagged with its bucket.
RECURSIVE MatchingFrom(_, _, _)
MatchingFrom(store, filter, i) ==
    IF i > Len(store) THEN <<>>
    ELSE (IF includes(toLowerCase(store[i].companyId), toLowerCase(filter))
          THEN TagAll(store[i].assets, store[i].companyId)
          ELSE <<>>)
         \o MatchingFrom(store, filter, i + 1)

\* C2: getAssets with a non-empty filter returns exactly the records of every
\* bucket whose identifier contains the filter as a case-insensitive substring,
\* each tagged with its own bucket's identifier (nothing when none matches).
C2_FilterIsCaseInsensitiveSubstring ==
    (last.op = "getAssets" /\ Truthy(last.companyId))
        => /\ ~last.threw
           /\ last.assets = MatchingFrom(last.pre, last.companyId, 1)

---------------------------------------------------------------------------
(* C3 *)

\* The records of the batch at the positions outside skip, in input order.
RECURSIVE Without(_, _, _)
Without(assets, skip, i) ==
    IF i > Len(assets) THEN <<>>
    ELSE (IF i \in skip THEN <<>> ELSE <<assets[i]>>) \o Without(assets, skip, i + 1)

\* C3: a call of addAssets that returns has decided each input record, in
\* input order, against the records stored for the company before the call: the
\* records with no stored record within tolerance are added, in input order,
\* and appended to the bucket; the others are counted in duplicatesSkipped; so
\* len(added) + duplicatesSkipped = len(records) and the bucket grows by
\* len(added).
C3_AddDecidesAgainstStored ==
    AddReturned =>
        LET stored == RecordsOf(last.pre, last.companyId)
            skipped == NearStored(stored, last.assets)
        IN  /\ last.added = Without(last.assets, skipped, 1)
            /\ last.duplicatesSkipped = Cardinality(skipped)
            /\ Len(last.added) + last.duplicatesSkipped = Len(last.assets)
            /\ RecordsOf(storage, last.companyId) = stored \o last.added
            /\ Len(RecordsOf(storage, last.companyId))
                   = Len(stored) + Len(last.added)

\* C3 witness: a batch with one duplicate of a stored record and one new
\* record was added.
C3_Witness ==
    /\ AddReturned
    /\ last.companyId = company1
    /\ last.assets = <<NearNewYork, PointA>>
    /\ last.added = <<PointA>>
    /\ last.duplicatesSkipped = 1

---------------------------------------------------------------------------
(* C4 *)

\* C4: within one call of addAssets, two records of the batch that are within
\* tolerance of one another, neither within tolerance of a record stored
\* before the call, are both added, and duplicatesSkipped counts neither: it
\* counts only the records within tolerance of a stored one.
C4_BatchNotComparedWithItself ==
    AddReturned =>
        LET stored == RecordsOf(last.pre, last.companyId)
            skipped == NearStored(stored, last.assets)
        IN  \A i, j \in 1..Len(last.assets) :
                ( /\ i < j
                  /\ i \notin skipped
                  /\ j \notin skipped
                  /\ Near(last.assets[i].latitude, last.assets[i].longitude,
                          last.assets[j].latitude, last.assets[j].longitude) )
                => /\ \E m, n \in 1..Len(last.added) :
                          /\ m < n
                          /\ last.added[m] = last.assets[i]
                          /\ last.added[n] = last.assets[j]
                   /\ last.duplicatesSkipped = Cardinality(skipped)

\* C4 witness: two records 0.00006 degree apart went in with one batch.
C4_Witness ==
    /\ AddReturned
    /\ last.assets = <<PointA, PointB>>
    /\ last.added = <<PointA, PointB>>
    /\ last.duplicatesSkipped = 0

---------------------------------------------------------------------------
(* C5 *)

\* C5: when addAssets(c, [r]) has returned and is called again with the same c
\* and r, the second call returns added = [] and duplicatesSkipped = 1 and
\* leaves the store, hence c's bucket and the total count, unchanged.
C5_SecondAddIsSkipped ==
    [][ ( /\ AddReturned
          /\ Len(last.assets) = 1
          /\ last'.op = "addAssets"
          /\ last'.companyId = last.companyId
          /\ last'.assets = last.assets )
        => /\ ~last'.threw
           /\ last'.added = <<>>
           /\ last'.duplicatesSkipped = 1
           /\ storage' = storage
           /\ getTotalAssets(storage') = getTotalAssets(storage) ]_vars

\* C5 witness: a record that an earlier call stored was handed in again.
C5_Witness ==
    /\ AddReturned
    /\ last.companyId = acme
    /\ last.assets = <<PointA>>
    /\ RecordsOf(last.pre, acme) = <<PointA>>
    /\ last.added = <<>>
    /\ last.duplicatesSkipped = 1
    /\ storage = last.pre

---------------------------------------------------------------------------
(* C6 *)

\* Some record of the listing has the address and coordinates of asset and the
\* tag companyId.
Lists(listing, asset, companyId) ==
    \E k \in 1..Len(listing) : listing[k] = WithCompany(asset, companyId)

\* C6, as claimed: once addAssets(c, [r]) has returned, getAssets(c) returns a
\* sequence containing a record with r's address, latitude and longitude,
\* tagged with c.
C6_AddedRecordIsListed ==
    (AddReturned /\ Len(last.assets) = 1)
        => LET listing == getAssets(storage, last.companyId)
           IN  /\ ~listing.threw
               /\ Lists(listing.assets, last.assets[1], last.companyId)

\* C6, amended: once addAssets(c, [r]) has returned, getAssets(c) returns a
\* sequence containing a record tagged with c whose coordinates are within
\* tolerance of r's; it contains a record with r's own address, latitude and
\* longitude when no record stored for c before the call was within tolerance
\* of r.
C6_AddedOrNearRecordIsListed ==
    (AddReturned /\ Len(last.assets) = 1)
        => LET listing == getAssets(storage, last.companyId)
               r == last.assets[1]
           IN  /\ ~listing.threw
               /\ \E k \in 1..Len(listing.assets) :
                      /\ listing.assets[k].companyId = last.companyId
                      /\ Near(listing.assets[k].latitude,
                              listing.assets[k].longitude,
                              r.latitude, r.longitude)
               /\ ~SomeNear(RecordsOf(last.pre, last.companyId),
                            r.latitude, r.longitude)
                      => Lists(listing.assets, r, last.companyId)

\* C6 witness: a record was discarded because a stored record with another
\* address was within tolerance, and the listing holds the stored one.
C6_Witness ==
    /\ AddReturned
    /\ last.companyId = company1
    /\ last.assets = <<NearNewYork>>
    /\ last.added = <<>>
    /\ Lists(getAssets(storage, company1).assets, SeedNewYork, company1)
    /\ ~Lists(getAssets(storage, company1).assets, NearNewYork, company1)

---------------------------------------------------------------------------
(* C7 *)

\* The first position of records within tolerance of the coordinates.
FirstNear(records, latitude, longitude) ==
    CHOOSE i \in 1..Len(records) :
        /\ Near(records[i].latitude, records[i].longitude, latitude, longitude)
        /\ \A j \in 1..(i - 1) :
               ~Near(records[j].latitude, records[j].longitude, latitude, longitude)

\* The positions of records within tolerance of the coordinates.
NearPositions(records, latitude, longitude) ==
    { i \in 1..Len(records) :
          Near(records[i].latitude, records[i].longitude, latitude, longitude) }

\* C7: deleteAsset on a bucket holding one or more records within tolerance of
\* the coordinates removes all of them and no others, keeps the remaining
\* records in their previous relative order, returns success = true, and
\* reports as deletedAsset the matching record that was earliest in the bucket.
C7_DeleteRemovesAllMatching ==
    ( /\ last.op = "deleteAsset"
      /\ SomeNear(RecordsOf(last.pre, last.companyId), last.latitude, last.longitude) )
    => LET stored == RecordsOf(last.pre, last.companyId)
           gone == NearPositions(stored, last.latitude, last.longitude)
       IN  /\ ~last.threw
           /\ last.success
           /\ RecordsOf(storage, last.companyId) = Without(stored, gone, 1)
           /\ last.deletedAsset
                  = <<stored[FirstNear(stored, last.latitude, last.longitude)]>>

\* C7 witness: two records matched, the earlier was reported, and a record that
\* did not match stayed.
C7_Witness ==
    /\ DeleteReturned
    /\ last.success
    /\ Cardinality(NearPositions(RecordsOf(last.pre, last.companyId),
                                 last.latitude, last.longitude)) = 2
    /\ Len(RecordsOf(storage, last.companyId)) > 0

---------------------------------------------------------------------------
(* C8 *)

\* C8: deleteAsset returns success = false with no deletedAsset, and leaves the
\* whole store unchanged, whenever the company has no bucket or no record of its
\* bucket is within tolerance of the coordinates.
C8_DeleteWithoutMatchFails ==
    ( /\ last.op = "deleteAsset"
      /\ ~SomeNear(RecordsOf(last.pre, last.companyId), last.latitude, last.longitude) )
    => /\ ~last.threw
       /\ ~last.success
       /\ last.deletedAsset = NoAsset
       /\ storage = last.pre

---------------------------------------------------------------------------
(* C9 *)

\* The identifier is an element of the sequence getAllCompanies returns.
IsCompany(store, companyId) ==
    \E i \in 1..Len(getAllCompanies(store)) : getAllCompanies(store)[i] = companyId

\* C9: after a deleteAsset that removes the last remaining record(s) of a
\* company's bucket, the company is no longer returned by getAllCompanies and
\* getAssets for it returns an empty sequence.
C9_EmptiedBucketIsRemoved ==
    ( /\ DeleteReturned
      /\ last.success
      /\ Cardinality(NearPositions(RecordsOf(last.pre, last.companyId),
                                   last.latitude, last.longitude))
             = Len(RecordsOf(last.pre, last.companyId)) )
    => /\ ~IsCompany(storage, last.companyId)
       /\ getAssets(storage, last.companyId) = [threw |-> FALSE, assets |-> <<>>]

\* C9 witness: a delete removed both records of a bucket of two.
C9_Witness ==
    /\ DeleteReturned
    /\ last.success
    /\ Len(RecordsOf(last.pre, last.companyId)) = 2
    /\ IsCompany(last.pre, last.companyId)
    /\ ~IsCompany(storage, last.companyId)

---------------------------------------------------------------------------
(* C10 *)

\* C10: an upload request that does not answer 200 leaves the store unchanged:
\* blank or missing companyId, missing file, parse failure, or any record of
\* the batch failing validation, whatever the other records are.
C10_FailedUploadStoresNothing ==
    (last.op = "upload" /\ last.response.status # 200) => storage = last.pre

\* C10 witness: a batch of one valid and one invalid record was rejected for a
\* company that could have stored the valid one.
C10_Witness ==
    /\ last.op = "upload"
    /\ last.response.status = 400
    /\ last.response.message = "Data validation failed"
    /\ last.request.companyId = acme
    /\ last.request.file[1].content.json = Arr(<<ObjOf(PointB), TooFarNorth>>)
    /\ ~SomeNear(RecordsOf(last.pre, acme), PointB.latitude, PointB.longitude)
    /\ storage = last.pre

---------------------------------------------------------------------------
(* C11 *)

\* The request carries no companyId, or one that is blank.
MissingCompanyId(req) ==
    req.companyId = Undefined \/ trim(req.companyId) = <<>>

MissingFile(req) == req.file = NoFile

\* The name of the request's file ends in neither .csv nor .json.
UnsupportedExtension(req) ==
    /\ req.file # NoFile
    /\ ~endsWith(toLowerCase(req.file[1].originalname), dotCsv)
    /\ ~endsWith(toLowerCase(req.file[1].originalname), dotJson)

ParseFailure(req) ==
    /\ req.file # NoFile
    /\ ~UnsupportedExtension(req)
    /\ ParsedBySuffix(req.file[1]).threw

ValidationFailure(req) ==
    /\ req.file # NoFile
    /\ ~UnsupportedExtension(req)
    /\ ~ParsedBySuffix(req.file[1]).threw
    /\ validateAssets(ParsedBySuffix(req.file[1]).assets) # <<>>

\* C11: a POST upload answers status 400, never 500, when the companyId is
\* missing, when the file is missing, when the file's name has an unsupported
\* extension (whatever its declared MIME type, also when the fileFilter rejects
\* it), when parsing fails and when validation fails.
C11_UploadFailuresAnswer400 ==
    ( /\ last.op = "upload"
      /\ last.request.method = "POST"
      /\ \/ MissingCompanyId(last.request)
         \/ MissingFile(last.request)
         \/ UnsupportedExtension(last.request)
         \/ ParseFailure(last.request)
         \/ ValidationFailure(last.request) )
    => last.response.status = 400

---------------------------------------------------------------------------
(* C12 *)

\* C12: the duplicate relation is the strict window of 0.0001 degree on each
\* axis, for addAssets and for deleteAsset alike: two records of one company
\* 0.00009 apart on both axes are duplicates, records 0.00011 or exactly
\* 0.0001 apart on either axis are not. So a single record is skipped by
\* addAssets, and a delete succeeds, exactly when a stored record of the
\* company is less than 0.0001 away on both axes.
C12_WindowIsStrict ==
    /\ (AddReturned /\ Len(last.assets) = 1)
           => ( last.added = <<>>
                    <=> SomeNear(RecordsOf(last.pre, last.companyId),
                                 last.assets[1].latitude,
                                 last.assets[1].longitude) )
    /\ DeleteReturned
           => ( last.success
                    <=> SomeNear(RecordsOf(last.pre, last.companyId),
                                 last.latitude, last.longitude) )

---------------------------------------------------------------------------
(* C13 *)

\* The records of the listing that carry the tag companyId, in listing order.
TaggedWith(listing, companyId) ==
    SelectSeq(listing, LAMBDA a : a.companyId = companyId)

\* The records carrying one tag are next to one another in the listing.
BucketByBucket(listing) ==
    \A m, n, k \in 1..Len(listing) :
        (m < n /\ n < k /\ listing[m].companyId = listing[k].companyId)
            => listing[n].companyId = listing[m].companyId

\* C13: getAssets() with no filter returns every record of every bucket
\* exactly once, each tagged with the identifier of the bucket that owns it,
\* bucket by bucket and, within a bucket, in the order of insertion (the order
\* of the bucket's array, to which addAssets only ever appends).
C13_UnfilteredListsEverything ==
    (last.op = "getAssets" /\ ~Truthy(last.companyId))
        => /\ ~last.threw
           /\ Len(last.assets) = getTotalAssets(last.pre)
           /\ \A i \in 1..Len(last.pre) :
                  TaggedWith(last.assets, last.pre[i].companyId)
                      = TagAll(last.pre[i].assets, last.pre[i].companyId)
           /\ BucketByBucket(last.assets)

\* C13 witness: the whole of a store of three buckets, one of them grown by a
\* later addAssets, was listed.
C13_Witness ==
    /\ last.op = "getAssets"
    /\ last.companyId = Undefined
    /\ Len(last.pre) = 3
    /\ RecordsOf(last.pre, company1) = <<SeedNewYork, SeedLosAngeles, PointA>>
    /\ Len(last.assets) = 5
    /\ last.assets[3] = WithCompany(PointA, company1)

---------------------------------------------------------------------------
(* C14 *)

\* The body's companyId is a non-blank string and its latitude and longitude
\* are numbers in range.
ValidDeleteFields(body) ==
    /\ body.companyId.t = "string"
    /\ trim(body.companyId.s) # <<>>
    /\ body.latitude.t = "number"
    /\ body.latitude.n >= -LatitudeLimit
    /\ body.latitude.n <= LatitudeLimit
    /\ body.longitude.t = "number"
    /\ body.longitude.n >= -LongitudeLimit
    /\ body.longitude.n <= LongitudeLimit

\* C14: a DELETE request with a non-blank companyId and numeric in-range
\* latitude and longitude answers 200 with deletedAsset {address, companyId}
\* if and only if some record stored for that company was within tolerance of
\* the coordinates before the request, and 404 'Asset not found' otherwise; a
\* request that fails field validation answers 400 and never reaches the
\* store.
C14_DeleteAnswers ==
    (last.op = "delete" /\ last.request.method = "DELETE")
        => LET body == last.request.body
           IN  IF ValidDeleteFields(body)
               THEN LET stored == RecordsOf(last.pre, body.companyId.s)
                        latitude == body.latitude.n
                        longitude == body.longitude.n
                    IN  IF SomeNear(stored, latitude, longitude)
                        THEN /\ last.response.status = 200
                             /\ last.response.deletedAsset
                                    = << [address |->
                                              stored[FirstNear(stored, latitude,
                                                               longitude)].address,
                                          companyId |-> body.companyId.s] >>
                        ELSE /\ last.response.status = 404
                             /\ last.response.message = "Asset not found"
               ELSE /\ last.response.status = 400
                    /\ storage = last.pre

---------------------------------------------------------------------------
(* C15 *)

\* C15: GET and DELETE are idempotent on the store: a GET never changes the
\* store, and the same DELETE (companyId, latitude, longitude) issued twice in
\* a row leaves the store as the first left it.
C15_GetAndDeleteAreIdempotent ==
    /\ last.op = "get" => storage = last.pre
    /\ (last.op = "delete" /\ last.repeatOf # 0) => storage = last.pre

\* C15 witness: a DELETE that had removed the records of a company was issued
\* again and found nothing more to remove.
C15_Witness ==
    /\ last.op = "delete"
    /\ last.repeatOf = 200
    /\ last.request.body = DeleteBody(Str(acme), Num(3), Num(3))
    /\ last.response.status = 404
    /\ ~HasOwn(last.pre, acme)
    /\ storage = last.pre

---------------------------------------------------------------------------
(* C16 *)

\* What a reader can tell of a company's bucket: absent, or present with its
\* records.
BucketState(store, companyId) ==
    IF HasOwn(store, companyId) THEN <<Bucket(store, companyId)>> ELSE <<>>

\* The store the mutation of frame leaves when it has run to its end.
StoreAfter(frame) ==
    IF frame.op = "addAssets"
    THEN addAssets(frame.pre, frame.companyId, frame.assets).storage
    ELSE deleteAsset(frame.pre, frame.companyId, frame.latitude,
                     frame.longitude).storage

\* The store shows every bucket as it was before the mutation of frame or as
\* it is after it.
Whole(store, frame) ==
    \/ frame.pc = "idle"
    \/ LET companyIds == { frame.pre[i].companyId : i \in 1..Len(frame.pre) }
                             \cup { store[i].companyId : i \in 1..Len(store) }
       IN  \A c \in companyIds :
               \/ BucketState(store, c) = BucketState(frame.pre, c)
               \/ BucketState(store, c) = BucketState(StoreAfter(frame), c)

\* C16: with any interleaving of requests, a GET concurrent with an upload or
\* a delete observes each bucket either entirely as it was before the mutation
\* or entirely as it is after it: never a bucket created but not yet filled,
\* nor a bucket emptied by delete and still present as a key. (After it: the
\* writes of a mutation, run to their end, leave the store that addAssets or
\* deleteAsset returns on.)
C16_ReadersSeeWholeMutations ==
    /\ last.op = "get" => Whole(last.pre, last.during)
    /\ ( /\ last.op \in {"addPushes", "deleteFilters", "deleteCleansUp"}
         /\ last.finished.pc # "idle" )
           => storage = StoreAfter(last.finished)

\* C16 witness: a GET was served while an upload was suspended in the
\* middleware, after another upload that arrived meanwhile had stored its
\* batch.
C16_Witness ==
    /\ last.op = "get"
    /\ Cardinality(last.awaiting) = 1
    /\ RecordsOf(last.pre, acme) = <<PointA, PointB>>
    /\ last.response.total = 5

---------------------------------------------------------------------------
(* C17 *)

\* How many times the record occurs in the sequence.
Count(records, record) ==
    Cardinality({ k \in 1..Len(records) : records[k] = record })

\* C17: a stored record is destroyed only by an explicit delete: a record of
\* company c's bucket stays in it, unmodified, across every step that is not a
\* deleteAsset call naming exactly c and coordinates within tolerance of the
\* record; no addAssets, getAssets, failed delete or delete on another company
\* removes or alters it.
C17_OnlyDeleteDestroys ==
    [][ \A i \in 1..Len(storage) : \A j \in 1..Len(storage[i].assets) :
            LET c == storage[i].companyId
                record == storage[i].assets[j]
            IN  Count(RecordsOf(storage', c), record)
                    < Count(storage[i].assets, record)
                => /\ last'.op = "deleteAsset"
                   /\ last'.companyId = c
                   /\ Near(record.latitude, record.longitude,
                           last'.latitude, last'.longitude) ]_vars

\* C17 witness: a delete naming another company, at coordinates within
\* tolerance of the New York seed, removed that company's record and left the
\* seed in company1's bucket.
C17_Witness ==
    /\ DeleteReturned
    /\ last.companyId = acme
    /\ last.success
    /\ Near(SeedNewYork.latitude, SeedNewYork.longitude,
            last.latitude, last.longitude)
    /\ Count(RecordsOf(last.pre, company1), SeedNewYork) = 1
    /\ Count(RecordsOf(storage, company1), SeedNewYork) = 1

---------------------------------------------------------------------------
(* C18 *)

\* C18: duplicate assets are prevented: in every state reachable from the
\* seeded store by uploads and deletes, no company bucket holds two records
\* whose latitudes differ by less than 0.0001 and whose longitudes differ by
\* less than 0.0001.
C18_NoTwoRecordsWithinTolerance ==
    \A i \in 1..Len(storage) :
        \A j, k \in 1..Len(storage[i].assets) :
            j < k => ~Near(storage[i].assets[j].latitude,
                           storage[i].assets[j].longitude,
                           storage[i].assets[k].latitude,
                           storage[i].assets[k].longitude)

---------------------------------------------------------------------------
(* C19 *)

\* The value is a finite number between -limit and limit.
FiniteWithin(v, limit) == v.t = "number" /\ v.n >= -limit /\ v.n <= limit

\* The rules a record violates, in rule order.
RulesViolated(record) ==
    (IF record.address.t = "string" /\ trim(record.address.s) # <<>>
     THEN <<>> ELSE <<"address cannot be empty">>)
    \o (IF FiniteWithin(record.latitude, LatitudeLimit)
        THEN <<>> ELSE <<"latitude must be a number between -90 and 90">>)
    \o (IF FiniteWithin(record.longitude, LongitudeLimit)
        THEN <<>> ELSE <<"longitude must be a number between -180 and 180">>)

\* Every violation of every record from position i on, in record order then
\* rule order, each with the position of its record.
RECURSIVE ViolationsFrom(_, _)
ViolationsFrom(records, i) ==
    IF i > Len(records) THEN <<>>
    ELSE [k \in 1..Len(RulesViolated(records[i])) |->
              <<i, RulesViolated(records[i])[k]>>]
         \o ViolationsFrom(records, i + 1)

\* The request gets as far as the validation of its parsed batch.
ReachesValidation(req) ==
    /\ req.method = "POST"
    /\ req.file # NoFile
    /\ fileFilter(req.file[1])
    /\ ~MissingCompanyId(req)
    /\ ~UnsupportedExtension(req)
    /\ ~ParsedBySuffix(req.file[1]).threw

\* C19: batch validation accepts a record if and only if its address is a
\* non-empty string after trimming, its latitude a finite number in [-90, 90]
\* and its longitude a finite number in [-180, 180]; the three rules are all
\* evaluated for every record, and the 400 response lists every violation of
\* every record, in record order then rule order.
C19_ValidationListsEveryViolation ==
    (last.op = "upload" /\ ReachesValidation(last.request))
        => LET records == ParsedBySuffix(last.request.file[1]).assets
           IN  IF ViolationsFrom(records, 1) = <<>>
               THEN last.response.status # 400
               ELSE /\ last.response.status = 400
                    /\ last.response.message = "Data validation failed"
                    /\ last.response.error = ViolationsFrom(records, 1)

\* C19 witness: a batch whose first record violates the address and the
\* longitude rule and whose second has an infinite latitude was answered with
\* the three violations.
C19_Witness ==
    /\ last.op = "upload"
    /\ last.response.status = 400
    /\ last.response.message = "Data validation failed"
    /\ last.response.error
           = << <<1, "address cannot be empty">>,
                <<1, "longitude must be a number between -180 and 180">>,
                <<2, "latitude must be a number between -90 and 90">> >>

---------------------------------------------------------------------------
(* C20 *)

\* The answer and the store are those of a handler that was given parsed as
\* the outcome of parsing the file.
AnsweredFrom(parsed) ==
    IF parsed.threw
    THEN /\ last.response.status = 400
         /\ last.response.message = "File parsing failed"
         /\ storage = last.pre
    ELSE IF ViolationsFrom(parsed.assets, 1) # <<>>
    THEN /\ last.response.status = 400
         /\ last.response.message = "Data validation failed"
         /\ storage = last.pre
    ELSE LET companyId == trim(last.request.companyId)
             records == AssetsOf(parsed.assets)
             stored == RecordsOf(last.pre, companyId)
         IN  \/ /\ last.response.status = 200
                /\ last.response.assets
                       = Without(records, NearStored(stored, records), 1)
                /\ RecordsOf(storage, companyId) = stored \o last.response.assets
             \/ /\ last.response.status = 500
                /\ companyId \in ObjectPrototypeKeys

\* C20: the upload parser is chosen by the file name's suffix alone: a file
\* whose name ends in .csv, in any letter case, is parsed as CSV and one ending
\* in .json as JSON, whatever MIME type is declared; a file with neither
\* suffix is never parsed and never reaches the store, even when its declared
\* MIME type is text/csv or application/json.
C20_ParserChosenBySuffix ==
    ( /\ last.op = "upload"
      /\ last.request.method = "POST"
      /\ ~MissingFile(last.request)
      /\ ~MissingCompanyId(last.request) )
    => LET file == last.request.file[1]
           name == toLowerCase(file.originalname)
       IN  IF endsWith(name, dotCsv)
           THEN AnsweredFrom(parseCSV(file.content.csv))
           ELSE IF endsWith(name, dotJson)
           THEN AnsweredFrom(parseJSON(file.content.json))
           ELSE /\ last.response.status \in {400, 500}
                /\ last.response.message
                       \in {"Invalid file type", "Internal server error"}
                /\ storage = last.pre

\* C20 witness: a file named a.csv, declared application/json and holding a
\* JSON array that would have stored a record, was parsed as CSV and failed.
C20_Witness ==
    /\ last.op = "upload"
    /\ last.request.companyId = acme
    /\ last.request.file
           = <<JsonFile(nameCsv, "application/json", Arr(<<ObjOf(PointA)>>))>>
    /\ ~HasOwn(last.pre, acme)
    /\ last.response.status = 400
    /\ last.response.message = "File parsing failed"
    /\ storage = last.pre

---------------------------------------------------------------------------
(* C21 *)

\* The element has a non-empty string address and numeric latitude and
\* longitude.
WellFormed(element) ==
    /\ element.t = "object"
    /\ element.address.t = "string" /\ element.address.s # <<>>
    /\ element.latitude.t \in {"number", "Infinity"}
    /\ element.longitude.t \in {"number", "Infinity"}

\* C21: a JSON upload whose top-level value is an array yields one candidate
\* record per element, in order; a single top-level object yields a batch of
\* one; any other top-level value (number, string, boolean, null) or a syntax
\* error ends the request with a 400 parse failure and an unchanged store.
C21_JsonTopLevelShapes ==
    ( /\ last.op = "upload"
      /\ last.request.method = "POST"
      /\ ~MissingFile(last.request)
      /\ ~MissingCompanyId(last.request)
      /\ endsWith(toLowerCase(last.request.file[1].originalname), dotJson) )
    => LET json == last.request.file[1].content.json
           candidates == IF json.t = "array" THEN json.items ELSE <<json>>
       IN  IF json.t \notin {"array", "object"}
           THEN AnsweredFrom(ParseThrew)
           ELSE IF \A i \in 1..Len(candidates) : WellFormed(candidates[i])
           THEN AnsweredFrom(Parsed(candidates))
           ELSE AnsweredFrom(ParseThrew)

\* C21 witness: an array of two records was stored in the array's order.
C21_Witness ==
    /\ last.op = "upload"
    /\ last.request.companyId = acme
    /\ last.request.file
           = <<JsonFile(nameJson, "application/json",
                        Arr(<<ObjOf(NearNewYork), ObjOf(PointB)>>))>>
    /\ last.response.status = 200
    /\ last.response.assets = <<NearNewYork, PointB>>
    /\ RecordsOf(storage, acme) = <<NearNewYork, PointB>>

---------------------------------------------------------------------------
(* C22: the answers of GET /assets *)

\* The route's handlers over a stubbed store, as __tests__/api/assets.test.ts
\* drives them: any method, and a store that throws, returns null or
\* undefined, or returns a list.
Methods == {"GET", "POST", "PUT", "DELETE", "PATCH"}

StubRecords ==
    {WithCompany(SeedNewYork, company1), WithCompany(PointA, acme),
     WithCompany(PointB, acme)}

StubResults ==
    {StoreResult(TRUE, FALSE, <<>>), StoreResult(FALSE, TRUE, <<>>)}
        \cup {StoreResult(FALSE, FALSE, list) : list \in SeqsUpTo(StubRecords, 2)}

\* handler of pages/api/assets/index.ts, the store stubbed.
GetStubbed ==
    \E method \in Methods, r \in StubResults :
        /\ last' = [op |-> "getStubbed", handler |-> "index", method |-> method,
                    result |-> r, response |-> respond(method, r)]
        /\ UNCHANGED <<storage, loop>>

\* handler of the second copy of the route, the store stubbed.
GetStubbedSafe ==
    \E method \in Methods, r \in StubResults :
        /\ last' = [op |-> "getStubbed", handler |-> "safe", method |-> method,
                    result |-> r, response |-> respondSafe(method, r)]
        /\ UNCHANGED <<storage, loop>>

StubNext ==
    \/ GetStubbed
    \/ GetStubbedSafe

StubSpec == Init /\ [][StubNext]_vars

\* The claim's answer for a method and a store result.
AnswersAsSpecified(method, r, response) ==
    IF method # "GET"
    THEN /\ response.status = 405
         /\ response.assets = <<>>
         /\ response.total = 0
         /\ ~response.called
    ELSE IF r.threw
         THEN /\ response.status = 500
              /\ response.assets = <<>>
              /\ response.total = 0
         ELSE /\ response.status = 200
              /\ response.total = Len(response.assets)
              /\ response.assets = IF r.nullish THEN <<>> ELSE r.assets

\* C22 (as the spec states it): a handler of GET /assets answers 405 with an
\* empty list and total 0 to any method but GET, without calling the store;
\* 500 with an empty list and total 0 when the store throws; and otherwise 200
\* with total the length of assets, a null or undefined store result counting
\* as the empty list.
C22_GetAnswers ==
    last.op = "getStubbed"
        => AnswersAsSpecified(last.method, last.result, last.response)

\* C22 (what the code does): the handler at pages/api/assets/index.ts answers
\* a null or undefined store result with 500.
C22_NullResultAnswered500 ==
    /\ last.op = "getStubbed"
    /\ last.handler = "index"
    /\ last.method = "GET"
    /\ last.result = StoreResult(FALSE, TRUE, <<>>)
    /\ last.response.status = 500
    /\ last.response.total = 0

---------------------------------------------------------------------------
(* C23: what a successful upload reports *)

\* The last step was an upload answered 200.
UploadSucceeded == last.op = "upload" /\ last.response.status = 200

\* C23: an upload answered 200 returns as assets exactly the records this
\* request appended to the company's bucket and as duplicatesSkipped the
\* number of records of the batch that were discarded: the two add up to the
\* number of records parsed from the file, and the message gives the number
\* added, names the company identifier as sent, and gives the number of
\* duplicates iff it is not zero.
C23_UploadReportsWhatItStored ==
    UploadSucceeded
        => LET c == trim(last.request.companyId)
               parsed == ParsedBySuffix(last.request.file[1]).assets
               response == last.response
           IN  /\ RecordsOf(storage, c) = RecordsOf(last.pre, c) \o response.assets
               /\ Len(response.assets) + response.duplicatesSkipped = Len(parsed)
               /\ response.duplicatesSkipped >= 0
               /\ response.message.added = Len(response.assets)
               /\ response.message.companyId = last.request.companyId
               /\ response.message.skipped
                      = IF response.duplicatesSkipped = 0 THEN <<>>
                        ELSE <<response.duplicatesSkipped>>

\* A file of two records, one within tolerance of the stored seed and one new:
\* one is added, one is skipped and the message says so.
C23_Witness ==
    /\ UploadSucceeded
    /\ last.request.companyId = company1Spaced
    /\ RecordsOf(last.pre, company1) = <<SeedNewYork, SeedLosAngeles>>
    /\ last.response.assets = <<PointB>>
    /\ last.response.duplicatesSkipped = 1
    /\ last.response.message.skipped = <<1>>
    /\ RecordsOf(storage, company1) = <<SeedNewYork, SeedLosAngeles, PointB>>

---------------------------------------------------------------------------
(* C24: addAssets with an empty list *)

\* C24 (as the spec states it): addAssets with an empty list of records never
\* fails and is a no-op: for any company identifier, known or unknown, it
\* returns added = [] and duplicatesSkipped = 0 and leaves getAssets(),
\* getAllCompanies() and getTotalAssets() as they were.
C24_EmptyListIsNoOp ==
    (last.op = "addAssets" /\ last.assets = <<>>)
        => /\ ~last.threw
           /\ last.added = <<>>
           /\ last.duplicatesSkipped = 0
           /\ getAssets(storage, Undefined) = getAssets(last.pre, Undefined)
           /\ getAllCompanies(storage) = getAllCompanies(last.pre)
           /\ getTotalAssets(storage) = getTotalAssets(last.pre)

\* C24 (what the code does): addAssets('acme', []) returned, and
\* getAllCompanies() has gained 'acme'.
C24_EmptyListAddsCompany ==
    /\ AddReturned
    /\ last.assets = <<>>
    /\ last.companyId = acme
    /\ ~HasOwn(last.pre, acme)
    /\ getAllCompanies(storage) = Append(getAllCompanies(last.pre), acme)

\* C24 (what the code does): addAssets('constructor', []) threw.
C24_EmptyListThrows ==
    /\ last.op = "addAssets"
    /\ last.assets = <<>>
    /\ last.companyId = constructor
    /\ last.threw

---------------------------------------------------------------------------
(* C25: insertion order *)

\* The records of sub occur in seq, in the order of sub.
RECURSIVE InOrderWithin(_, _)
InOrderWithin(sub, seq) ==
    IF sub = <<>> THEN TRUE
    ELSE IF seq = <<>> THEN FALSE
    ELSE IF Head(sub) = Head(seq) THEN InOrderWithin(Tail(sub), Tail(seq))
    ELSE InOrderWithin(sub, Tail(seq))

\* C25: insertion order is preserved. After addAssets the bucket's content of
\* before the call is a prefix of its content and the rest is the added
\* records, which follow the order of the input; after deleteAsset the
\* surviving records are in the relative order they had.
C25_InsertionOrderPreserved ==
    LET before == IF last.op \in {"addAssets", "deleteAsset"}
                  THEN RecordsOf(last.pre, last.companyId) ELSE <<>>
        after == IF last.op \in {"addAssets", "deleteAsset"}
                 THEN RecordsOf(storage, last.companyId) ELSE <<>>
    IN  /\ last.op = "addAssets"
            => /\ Len(after) >= Len(before)
               /\ SubSeq(after, 1, Len(before)) = before
               /\ SubSeq(after, Len(before) + 1, Len(after)) = last.added
               /\ InOrderWithin(last.added, last.assets)
        /\ last.op = "deleteAsset"
            => /\ InOrderWithin(after, before)
               /\ Len(after) <= Len(before)

\* Records were appended to a bucket in input order over two calls, and
\* deleting the middle record of the three leaves the first and the last in
\* their order.
C25_Witness ==
    /\ DeleteReturned
    /\ last.companyId = acme
    /\ RecordsOf(last.pre, acme) = <<PointB, PointA, NearNewYork>>
    /\ RecordsOf(storage, acme) = <<PointB, NearNewYork>>

---------------------------------------------------------------------------
(* C26: a call touches one bucket *)

\* Company identifiers that differ by letter case only ('company1',
\* 'COMPANY1') or of which one is a substring of the other ('comp',
\* 'company1'), and the records handed to addAssets with them.
RelatedCompanyIds == {company1, COMPANY1, comp}

RelatedBatches == SeqsUpTo({NearNewYork, PointA}, 1)

\* assetStorage.addAssets(companyId, assets) with related identifiers.
AddRelated ==
    /\ UNCHANGED loop
    /\ \E companyId \in RelatedCompanyIds, assets \in RelatedBatches :
           /\ getTotalAssets(storage) + Len(assets) <= MaxAssets
           /\ LET r == addAssets(storage, companyId, assets)
              IN  /\ storage' = r.storage
                  /\ last' = [op |-> "addAssets", companyId |-> companyId,
                              assets |-> assets, pre |-> storage, threw |-> r.threw,
                              added |-> r.added,
                              duplicatesSkipped |-> r.duplicatesSkipped]

\* assetStorage.deleteAsset(companyId, latitude, longitude) with related
\* identifiers.
DeleteRelated ==
    /\ UNCHANGED loop
    /\ \E companyId \in RelatedCompanyIds, p \in Coordinates :
           LET r == deleteAsset(storage, companyId, p[1], p[2])
           IN  /\ storage' = r.storage
               /\ last' = [op |-> "deleteAsset", companyId |-> companyId,
                           latitude |-> p[1], longitude |-> p[2], pre |-> storage,
                           threw |-> r.threw, success |-> r.success,
                           deletedAsset |-> r.deletedAsset]

RelatedNext ==
    \/ AddRelated
    \/ DeleteRelated

RelatedSpec == Init /\ [][RelatedNext]_vars

\* The identifiers that are a key of one of the two stores.
KeysOf(before, after) ==
    { before[i].companyId : i \in 1..Len(before) }
        \cup { after[i].companyId : i \in 1..Len(after) }

\* C26: addAssets(c, ...) and deleteAsset(c, ...) change at most the bucket of
\* c: after the call, whatever it returned, every other company identifier
\* (one that differs from c by letter case only or that contains c included)
\* has the bucket it had before, or none as before.
C26_OtherBucketsUntouched ==
    last.op \in {"addAssets", "deleteAsset"}
        => \A d \in KeysOf(last.pre, storage) \cup RelatedCompanyIds :
               d # last.companyId
                   => BucketState(storage, d) = BucketState(last.pre, d)

\* The last record of 'COMPANY1' was deleted and its key removed while
\* 'company1' and 'comp' had buckets of their own, which are as they were.
C26_Witness ==
    /\ DeleteReturned
    /\ last.companyId = COMPANY1
    /\ last.success
    /\ ~HasOwn(storage, COMPANY1)
    /\ BucketState(last.pre, COMPANY1) = <<(<<PointA>>)>>
    /\ BucketState(storage, comp) = <<(<<PointA>>)>>
    /\ BucketState(storage, company1) = <<(<<SeedNewYork, SeedLosAngeles>>)>>

---------------------------------------------------------------------------
(* C27: what HTTP requests can store *)

\* The record has an address that is not empty when trimmed, a latitude in
\* [-90, 90] and a longitude in [-180, 180].
ValidRecord(asset) ==
    /\ trim(asset.address) # <<>>
    /\ asset.latitude >= -LatitudeLimit /\ asset.latitude <= LatitudeLimit
    /\ asset.longitude >= -LongitudeLimit /\ asset.longitude <= LongitudeLimit

\* The identifier is not empty and has no whitespace at either end.
TrimmedId(companyId) ==
    /\ companyId # Undefined
    /\ companyId # <<>>
    /\ trim(companyId) = companyId

\* C27: in every state reached from the seeded store through upload and delete
\* requests, every stored record has an address that is not empty when
\* trimmed, a latitude in [-90, 90] and a longitude in [-180, 180], and the
\* company identifier it is stored under is not empty and has no leading or
\* trailing whitespace.
C27_StoredRecordsAreValid ==
    \A i \in 1..Len(storage) :
        \A k \in 1..Len(storage[i].assets) :
            /\ ValidRecord(storage[i].assets[k])
            /\ TrimmedId(storage[i].companyId)

\* An upload for ' company1 ' was answered 200 and stored its record under
\* 'company1'; no key ' company1 ' exists.
C27_Witness ==
    /\ UploadSucceeded
    /\ last.request.companyId = company1Spaced
    /\ last.response.assets = <<PointB>>
    /\ ~HasOwn(storage, company1Spaced)
    /\ RecordsOf(storage, company1) = <<SeedNewYork, SeedLosAngeles, PointB>>
    /\ RecordsOf(storage, acme) = <<>>

---------------------------------------------------------------------------
(* C28: the read operations agree *)

\* The identifiers getAllCompanies() returns.
Companies(store) ==
    { getAllCompanies(store)[i] : i \in 1..Len(getAllCompanies(store)) }

\* The identifiers the records of getAssets() are tagged with.
TaggedCompanies(store) ==
    LET all == getAssets(store, Undefined).assets
    IN  { all[i].companyId : i \in 1..Len(all) }

\* C28 (as the spec states it): in every reachable state the three read
\* operations agree: getTotalAssets() is the sum of the bucket sizes and the
\* length of getAssets() without a filter, and getAllCompanies() returns a
\* company identifier iff getAssets() without a filter holds a record tagged
\* with it.
C28_ReadsAgree ==
    /\ getTotalAssets(storage) = Len(getAssets(storage, Undefined).assets)
    /\ Companies(storage) = TaggedCompanies(storage)

\* C28 (what the code does): the counts agree, but getAllCompanies() returns
\* 'acme' while no record of getAssets() is tagged with it.
C28_CompanyWithoutRecords ==
    /\ getTotalAssets(storage) = Len(getAssets(storage, Undefined).assets)
    /\ acme \in Companies(storage)
    /\ acme \notin TaggedCompanies(storage)

\* The counts of the read operations agree in every reachable state.
C28_CountsAgree ==
    getTotalAssets(storage) = Len(getAssets(storage, Undefined).assets)

---------------------------------------------------------------------------
(* C29: upload and delete name the same bucket *)

\* The step is a DELETE request that follows an upload answered 200, carries
\* the upload's companyId string and the coordinates of a record the upload
\* stored.
DeletesJustUploaded ==
    /\ UploadSucceeded
    /\ last'.op = "delete"
    /\ last'.request.method = "DELETE"
    /\ last'.request.body.companyId = Str(last.request.companyId)
    /\ \E k \in 1..Len(last.response.assets) :
           /\ last'.request.body.latitude = Num(last.response.assets[k].latitude)
           /\ last'.request.body.longitude = Num(last.response.assets[k].longitude)

\* C29 (as the spec states it): upload and delete address the same bucket for
\* the same companyId string: for every companyId the upload handler accepts,
\* one with leading or trailing whitespace included, a record stored by an
\* upload answered 200 is removed, with status 200, by a DELETE request that
\* carries the identical companyId string and the record's coordinates.
C29_DeleteFindsUploaded ==
    [][DeletesJustUploaded
           => /\ last'.response.status = 200
              /\ Len(RecordsOf(storage', trim(last.request.companyId)))
                     < Len(RecordsOf(storage, trim(last.request.companyId)))]_vars

\* C29 (what the code does): record B is stored under 'company1', where an
\* upload for ' company1 ' puts it, and a DELETE for ' company1 ' with B's
\* coordinates is answered 404 and leaves it there.
C29_SpacedDeleteAnswered404 ==
    /\ last.op = "delete"
    /\ last.request.body
           = DeleteBody(Str(company1Spaced), Num(PointB.latitude),
                        Num(PointB.longitude))
    /\ RecordsOf(last.pre, company1) = <<SeedNewYork, SeedLosAngeles, PointB>>
    /\ last.response.status = 404
    /\ storage = last.pre

\* For a companyId without whitespace at either end the DELETE is answered 200.
C29_TrimmedDeleteFindsUploaded ==
    [][(DeletesJustUploaded /\ trim(last.request.companyId) = last.request.companyId)
           => last'.response.status = 200]_vars

---------------------------------------------------------------------------
(* C30: two uploads of one record in flight at once *)

\* Two upload requests, each arriving once, with a file of one record: a
\* record new to the company, a record within tolerance of a stored one, or a
\* record that fails validation.
TwinIds == {1, 2}

TwinUploads ==
    { [method |-> "POST", companyId |-> c,
       file |-> <<JsonFile(nameJson, "application/json", o)>>] :
          c \in {acme, company1Spaced},
          o \in {ObjOf(PointA), ObjOf(NearNewYork), TooFarNorth} }

\* History: the uploads answered so far, in the order of their answers, each
\* with the identifiers of the uploads that were suspended when it arrived.
Log == IF "log" \in DOMAIN last THEN last.log ELSE <<>>

Arrived ==
    { upload.id : upload \in loop.awaiting }
        \cup { Log[k].id : k \in 1..Len(Log) }
        \cup (IF loop.running.pc = "idle" THEN {} ELSE {loop.running.id})

\* existingAssets of addAssets as read by the upload that arrived with the
\* store as it was before its await.
ExistingAssetsAtArrival(frame, store) ==
    RecordsOf(frame.arrived, frame.companyId)

\* const existingAssets = this.storage[companyId]: read after the await,
\* inside addAssets.
ExistingAssets(frame, store) == Bucket(store, frame.companyId)

\* An upload request arrives: the handler runs to its await. arrived and
\* inFlight are history: the store and the suspended uploads at that moment.
TwinArrives ==
    \E id \in TwinIds, req \in TwinUploads :
        /\ EventLoopFree
        /\ id \notin Arrived
        /\ loop' = [loop EXCEPT !.awaiting =
                        @ \cup {[id |-> id, request |-> req, arrived |-> storage,
                                 inFlight |-> { upload.id : upload \in loop.awaiting }]}]
        /\ last' = [op |-> "twinArrives", log |-> Log]
        /\ UNCHANGED storage

\* The middleware of a suspended upload is done, in any order: the handler
\* resumes and either answers without reaching the store or enters addAssets.
TwinResumes ==
    /\ EventLoopFree
    /\ \E upload \in loop.awaiting :
           LET batch == HandedToStore(upload.request)
           IN  IF batch = <<>>
               THEN /\ loop' = [loop EXCEPT !.awaiting = @ \ {upload}]
                    /\ last' = [op |-> "twinAnswers",
                                log |-> Append(Log,
                                    [id |-> upload.id, request |-> upload.request,
                                     inFlight |-> upload.inFlight,
                                     status |-> uploadHandler(storage, upload.request)
                                                    .response.status,
                                     added |-> <<>>, duplicatesSkipped |-> 0])]
               ELSE /\ loop' = [awaiting |-> loop.awaiting \ {upload},
                                running |-> [pc |-> "ensure", id |-> upload.id,
                                             request |-> upload.request,
                                             inFlight |-> upload.inFlight,
                                             arrived |-> upload.arrived,
                                             companyId |-> trim(upload.request.companyId),
                                             assets |-> batch[1]]]
                    /\ last' = [op |-> "twinResumes", log |-> Log]
    /\ UNCHANGED storage

\* addAssets, first write: the bucket is created when the company has none.
TwinEnsuresBucket ==
    /\ loop.running.pc = "ensure"
    /\ storage' = EnsureBucket(storage, loop.running.companyId)
    /\ loop' = [loop EXCEPT !.running.pc = "push"]
    /\ last' = [op |-> "twinEnsuresBucket", log |-> Log]

\* addAssets, the loop over the batch and the push of the records it kept; the
\* handler then answers 200 and returns.
TwinPushes ==
    /\ loop.running.pc = "push"
    /\ LET frame == loop.running
           r == addLoop(ExistingAssets(frame, storage), frame.assets, <<>>, 0)
       IN  /\ storage' = SetBucket(storage, frame.companyId,
                                   Bucket(storage, frame.companyId) \o r.newAssets)
           /\ last' = [op |-> "twinPushes",
                       log |-> Append(Log,
                           [id |-> frame.id, request |-> frame.request,
                            inFlight |-> frame.inFlight, status |-> 200,
                            added |-> r.newAssets,
                            duplicatesSkipped |-> r.duplicatesSkipped])]
    /\ loop' = [loop EXCEPT !.running = Idle]

TwinNext ==
    \/ TwinArrives
    \/ TwinResumes
    \/ TwinEnsuresBucket
    \/ TwinPushes

TwinSpec == Init /\ [][TwinNext]_vars

\* Two answered uploads carried the same single valid record for the same
\* company and were in flight at once: the later arrived while the earlier
\* was suspended.
TwinsInFlight(first, second) ==
    /\ first.request.companyId = second.request.companyId
    /\ first.request.file = second.request.file
    /\ HandedToStore(first.request) # <<>>
    /\ first.id \in second.inFlight \/ second.id \in first.inFlight

\* The record of an upload that reached the store.
RecordOf(answer) == HandedToStore(answer.request)[1][1]

\* No record within tolerance of the upload's is seeded for its company.
NewToCompany(answer) ==
    ~SomeNear(RecordsOf(SeedStorage, trim(answer.request.companyId)),
              RecordOf(answer).latitude, RecordOf(answer).longitude)

C30_StoredBeforeBothSkipped ==
    \A i \in 1..Len(Log), j \in 1..Len(Log) :
        (i < j /\ TwinsInFlight(Log[i], Log[j]) /\ ~NewToCompany(Log[i]))
            => /\ Log[i].added = <<>> /\ Log[i].duplicatesSkipped = 1
               /\ Log[j].added = <<>> /\ Log[j].duplicatesSkipped = 1
               /\ storage = SeedStorage

====
